---- MODULE Spec2Model ----
(***************************************************************************)
(* A model of the go-ipk package (github.com/TheCount/go-ipk): the         *)
(* in-memory package T, its authoring operations, the nested tar/gzip      *)
(* writer and the reader.                                                  *)
(*                                                                         *)
(* Strings are sequences of one-character strings, so that the path and    *)
(* text functions (slash, unslash, path.Clean, strings.TrimSpace, the line *)
(* scanner) are computed character by character as the code computes them. *)
(* A tar archive is the sequence of its entries; a gzip layer is a tagged  *)
(* record around what it compresses.                                       *)
(***************************************************************************)
EXTENDS Integers, Sequences, FiniteSets, TLC

VARIABLES
  t,      \* the package object the caller is authoring (*T)
  w,      \* the byte stream last produced by Write or handed to Read
  tmp,    \* the temporary backing files created by the last Write
  rd,     \* the package returned by the last Read (NoPkg: none)
  last,   \* the last operation, its arguments of interest and its result
  canon,  \* a path name handed to slash and unslash, and what they made of it
  aw      \* an archiveWriter whose Finish is running, and how far it got

vars == <<t, w, tmp, rd, last, canon, aw>>

(***************************************************************************)
(* Strings                                                                 *)
(***************************************************************************)

Lower == {"a", "b", "c", "d", "e", "f", "g", "h", "i", "j", "k", "l", "m",
          "n", "o", "p", "q", "r", "s", "t", "u", "v", "w", "x", "y", "z"}

Upper == {"A", "B", "C", "D", "E", "F", "G", "H", "I", "J", "K", "L", "M",
          "N", "O", "P", "Q", "R", "S", "T", "U", "V", "W", "X", "Y", "Z"}

\* the characters unicode.IsSpace accepts among those the model uses
Space == {" ", "\t", "\n", "\r", "\f"}

HasPrefix(s, p) == Len(s) >= Len(p) /\ SubSeq(s, 1, Len(p)) = p

Drop(s, n) == SubSeq(s, n + 1, Len(s))

\* strings.IndexByte: the first index of c in s (1-based), 0 when absent
IndexByte(s, c) ==
  IF \E i \in 1..Len(s) : s[i] = c
  THEN CHOOSE i \in 1..Len(s) : s[i] = c /\ \A j \in 1..(i - 1) : s[j] # c
  ELSE 0

\* strings.LastIndex for a one-byte separator, 0 when absent
LastIndexByte(s, c) ==
  IF \E i \in 1..Len(s) : s[i] = c
  THEN CHOOSE i \in 1..Len(s) : s[i] = c /\ \A j \in (i + 1)..Len(s) : s[j] # c
  ELSE 0

\* bufio.MaxScanTokenSize, the longest line a bufio.Scanner takes
MaxScanTokenSize == 65536

\* a run of MaxScanTokenSize letters a, held as one element of a string
LongRun == "a * 65536"

\* len(s) in bytes
RECURSIVE ByteLen(_)
ByteLen(s) ==
  IF s = <<>> THEN 0
  ELSE (IF Head(s) = LongRun THEN MaxScanTokenSize ELSE 1) + ByteLen(Tail(s))

ContainsRune(s, c) == \E i \in 1..Len(s) : s[i] = c

RECURSIVE TrimLeft(_)
TrimLeft(s) ==
  IF s # <<>> /\ Head(s) \in Space THEN TrimLeft(Tail(s)) ELSE s

RECURSIVE TrimRight(_)
TrimRight(s) ==
  IF s # <<>> /\ s[Len(s)] \in Space
  THEN TrimRight(SubSeq(s, 1, Len(s) - 1))
  ELSE s

\* a trim of the leading white space alone
TrimSpaceLeading(s) == TrimLeft(s)

TrimSpace(s) == TrimRight(TrimLeft(s))

\* the characters of the model in byte order, as sort.Strings compares them
Alphabet ==
  <<"\t", "\n", "\f", "\r", " ", "!", "-", ".", "/", "1", ":",
    "A", "B", "C", "D", "E", "F", "G", "H", "I", "J", "K", "L", "M",
    "N", "O", "P", "Q", "R", "S", "T", "U", "V", "W", "X", "Y", "Z",
    "a", "b", "c", "d", "e", "f", "g", "h", "i", "j", "k", "l", "m",
    "n", "o", "p", "q", "r", "s", "t", "u", "v", "w", "x", "y", "z">>

CharRank(c) == CHOOSE n \in 1..Len(Alphabet) : Alphabet[n] = c

RECURSIVE StrLess(_, _)
StrLess(a, b) ==
  IF b = <<>> THEN FALSE
  ELSE IF a = <<>> THEN TRUE
  ELSE IF Head(a) = Head(b) THEN StrLess(Tail(a), Tail(b))
  ELSE CharRank(Head(a)) < CharRank(Head(b))

\* the descending sequence of a set of distinct strings
RECURSIVE SortSetDescending(_)
SortSetDescending(S) ==
  IF S = {} THEN <<>>
  ELSE LET m == CHOOSE x \in S : \A y \in S \ {x} : StrLess(y, x)
       IN  <<m>> \o SortSetDescending(S \ {m})

\* sort.Strings on a set of distinct strings: the ascending sequence
RECURSIVE SortSet(_)
SortSet(S) ==
  IF S = {} THEN <<>>
  ELSE LET m == CHOOSE x \in S : \A y \in S \ {x} : StrLess(x, y)
       IN  <<m>> \o SortSet(S \ {m})

\* insert x into the ascending sequence q, after the elements equal to it
RECURSIVE InsertSorted(_, _)
InsertSorted(q, x) ==
  IF q = <<>> THEN <<x>>
  ELSE IF StrLess(x, Head(q)) THEN <<x>> \o q
  ELSE <<Head(q)>> \o InsertSorted(Tail(q), x)

\* sort.Strings on a sequence (duplicates are kept)
RECURSIVE SortStrings(_)
SortStrings(q) ==
  IF q = <<>> THEN <<>> ELSE InsertSorted(SortStrings(Tail(q)), Head(q))

(***************************************************************************)
(* Path functions: the package's slash and unslash, and the functions of   *)
(* the standard path package the code calls.                               *)
(***************************************************************************)

\* the path with a dot put before it
slashDot(path) == <<".">> \o path

\* slash prepends path with ./
slash(path) ==
  IF HasPrefix(path, <<".", "/">>) THEN path
  ELSE IF HasPrefix(path, <<"/">>) THEN <<".">> \o path
  ELSE <<".", "/">> \o path

\* the path with one initial ./ or / removed
unslashOnce(path) ==
  IF HasPrefix(path, <<".", "/">>) THEN Drop(path, 2)
  ELSE IF HasPrefix(path, <<"/">>) THEN Drop(path, 1)
  ELSE path

\* unslash returns path with initial ./ or / removed
RECURSIVE unslash(_)
unslash(path) ==
  IF HasPrefix(path, <<".", "/">>) THEN unslash(Drop(path, 2))
  ELSE IF HasPrefix(path, <<"/">>) THEN unslash(Drop(path, 1))
  ELSE path

\* the elements of a path between its slashes (empty elements included)
RECURSIVE Elements(_)
Elements(p) ==
  LET i == IndexByte(p, "/")
  IN  IF i = 0 THEN <<p>>
      ELSE <<SubSeq(p, 1, i - 1)>> \o Elements(Drop(p, i))

RECURSIVE JoinSlash(_)
JoinSlash(es) ==
  IF es = <<>> THEN <<>>
  ELSE IF Len(es) = 1 THEN es[1]
  ELSE es[1] \o <<"/">> \o JoinSlash(Tail(es))

\* path.Clean's pass over the elements: . and empty elements are dropped,
\* .. removes the element before it, or is dropped at the root, or is kept
RECURSIVE CleanElements(_, _, _)
CleanElements(es, rooted, stack) ==
  IF es = <<>> THEN stack
  ELSE LET e == Head(es)
           n == Len(stack)
       IN  IF e = <<>> \/ e = <<".">>
           THEN CleanElements(Tail(es), rooted, stack)
           ELSE IF e = <<".", ".">>
           THEN IF n > 0 /\ stack[n] # <<".", ".">>
                THEN CleanElements(Tail(es), rooted, SubSeq(stack, 1, n - 1))
                ELSE IF rooted
                THEN CleanElements(Tail(es), rooted, stack)
                ELSE CleanElements(Tail(es), rooted, Append(stack, e))
           ELSE CleanElements(Tail(es), rooted, Append(stack, e))

\* path.Clean
Clean(p) ==
  IF p = <<>> THEN <<".">>
  ELSE LET rooted == p[1] = "/"
           kept == CleanElements(Elements(p), rooted, <<>>)
       IN  IF rooted THEN <<"/">> \o JoinSlash(kept)
           ELSE IF kept = <<>> THEN <<".">>
           ELSE JoinSlash(kept)

\* path.IsAbs
IsAbs(p) == p # <<>> /\ p[1] = "/"

\* path.Split: <<dir, file>>, dir up to and including the last slash
Split(p) ==
  LET i == LastIndexByte(p, "/")
  IN  <<SubSeq(p, 1, i), Drop(p, i)>>

\* path.Join of two elements
Join(a, b) ==
  IF a = <<>> /\ b = <<>> THEN <<>>
  ELSE IF a = <<>> THEN Clean(b)
  ELSE IF b = <<>> THEN Clean(a)
  ELSE Clean(a \o <<"/">> \o b)

RECURSIVE StripTrailingSlashes(_)
StripTrailingSlashes(p) ==
  IF p # <<>> /\ p[Len(p)] = "/"
  THEN StripTrailingSlashes(SubSeq(p, 1, Len(p) - 1))
  ELSE p

\* path.Base
Base(p) ==
  IF p = <<>> THEN <<".">>
  ELSE LET q == StripTrailingSlashes(p)
           r == Drop(q, LastIndexByte(q, "/"))
       IN  IF r = <<>> THEN <<"/">> ELSE r

(***************************************************************************)
(* Byte streams.  A stream is text, a tar archive (the sequence of its     *)
(* entries) or a gzip layer around another stream.                         *)
(***************************************************************************)

\* closed: a tar stream ends with its end-of-archive blocks, a gzip stream
\* with its trailer; a stream whose writer failed or was never closed is cut
Text(chars) == [fmt |-> "text", body |-> chars, level |-> 0, closed |-> TRUE]

TarStream(entries, footer) ==
  [fmt |-> "tar", body |-> entries, level |-> 0, closed |-> footer]

Tar(entries) == TarStream(entries, TRUE)

BestCompression == 9

NoCompression == 0

\* what a gzip.Writer of the given level produces from the stream written
\* into it; trailer tells whether the writer was closed without error
GzipStream(stream, level, trailer) ==
  [fmt |-> "gzip", body |-> <<stream>>, level |-> level, closed |-> trailer]

Gzip(stream) == GzipStream(stream, BestCompression, TRUE)

\* gzip.NewReader succeeds on a stream exactly when it is a gzip stream
IsGzip(stream) == stream.fmt = "gzip"

\* what a gzip.Reader yields
Gunzip(stream) == stream.body[1]

\* a nil *bytes.Buffer
NoData == [fmt |-> "nil", body |-> <<>>, level |-> 0, closed |-> TRUE]

\* the number of bytes of a stream, up to the framing each layer adds
RECURSIVE StreamSize(_)
RECURSIVE EntriesSize(_)
StreamSize(stream) ==
  CASE stream.fmt = "text" -> ByteLen(stream.body)
    [] stream.fmt = "tar" -> EntriesSize(stream.body) + (IF stream.closed THEN 2 ELSE 0)
    [] stream.fmt = "gzip" -> StreamSize(stream.body[1]) + (IF stream.closed THEN 2 ELSE 1)
    [] OTHER -> 0

EntriesSize(entries) ==
  IF entries = <<>> THEN 0
  ELSE 1 + StreamSize(Head(entries).content) + EntriesSize(Tail(entries))

(***************************************************************************)
(* Tar headers (archive.go)                                                *)
(***************************************************************************)

ModeFile == 420   \* 0644

ModeDir == 493    \* 0755

ModeExec == 73    \* 0111

\* bitwise or of two non-negative integers
RECURSIVE BitOr(_, _)
BitOr(a, b) ==
  IF a = 0 THEN b
  ELSE IF b = 0 THEN a
  ELSE (IF a % 2 = 1 \/ b % 2 = 1 THEN 1 ELSE 0) + 2 * BitOr(a \div 2, b \div 2)

\* the test, were it to take every type of entry
IsAnyType(typeflag) == TRUE

\* header.Typeflag is tar.TypeReg or tar.TypeRegA
IsRegular(typeflag) == typeflag \in {"reg", "regA"}

\* specialHeader: a regular file header for size >= 0, else a directory
specialHeader(name, size) ==
  IF size >= 0
  THEN [Name |-> name, Typeflag |-> "reg", Mode |-> ModeFile,
        Size |-> size, Linkname |-> <<>>]
  ELSE [Name |-> name, Typeflag |-> "dir", Mode |-> ModeDir,
        Size |-> 0, Linkname |-> <<>>]

fileHeader(name, size) == specialHeader(name, size)

directoryHeader(name) == specialHeader(name, -1)

\* a tar entry: the header and the bytes that follow it; short tells that
\* fewer bytes follow than the header announces (the writer failed)
Entry(header, content) ==
  [header |-> header, content |-> content, short |-> FALSE]

\* the entry a failed write leaves behind: the stream is cut within it
CutEntry(header) == [header |-> header, content |-> Text(<<>>), short |-> TRUE]

(***************************************************************************)
(* The package T (ipk.go)                                                  *)
(***************************************************************************)

\* New returns a new, empty IPK package
New == [fields |-> <<>>, conffiles |-> <<>>, scripts |-> <<>>, files |-> <<>>]

\* m[k] = v on a Go map
MapPut(m, k, v) == (k :> v) @@ m

Result(pkg, err) == [pkg |-> pkg, err |-> err]

ControlPackage == <<"P", "a", "c", "k", "a", "g", "e">>

ControlVersion == <<"V", "e", "r", "s", "i", "o", "n">>

ControlArch == <<"A", "r", "c", "h", "i", "t", "e", "c", "t", "u", "r", "e">>

ControlMaintainer == <<"M", "a", "i", "n", "t", "a", "i", "n", "e", "r">>

ControlDesc == <<"D", "e", "s", "c", "r", "i", "p", "t", "i", "o", "n">>

ControlDep == <<"D", "e", "p", "e", "n", "d", "s">>

ControlHomepage == <<"H", "o", "m", "e", "p", "a", "g", "e">>

controlArchiveName ==
  <<"c", "o", "n", "t", "r", "o", "l", ".", "t", "a", "r", ".", "g", "z">>

dataArchiveName == <<"d", "a", "t", "a", ".", "t", "a", "r", ".", "g", "z">>

controlName == <<"c", "o", "n", "t", "r", "o", "l">>

confName == <<"c", "o", "n", "f", "f", "i", "l", "e", "s">>

\* allowedFieldNames: ^[[:alpha:]-]+$
allowedFieldNames(name) ==
  name # <<>> /\ \A i \in 1..Len(name) : name[i] \in Lower \cup Upper \cup {"-"}

\* allowedScriptNames: ^[[:lower:]]+$
allowedScriptNames(name) ==
  name # <<>> /\ \A i \in 1..Len(name) : name[i] \in Lower

\* AddField, were it to store the content before it looks for the name
AddFieldOverwriting(pkg, name, content) ==
  IF ~allowedFieldNames(name) THEN Result(pkg, "InvalidFieldName")
  ELSE IF ContainsRune(TrimSpace(content), "\n")
  THEN Result(pkg, "ContentNewline")
  ELSE Result([pkg EXCEPT !.fields = MapPut(@, name, TrimSpace(content))],
              IF name \in DOMAIN pkg.fields THEN "FieldExists" ELSE "ok")

\* AddField adds a field to the control file
AddFieldOp(pkg, name, content) ==
  IF ~allowedFieldNames(name) THEN Result(pkg, "InvalidFieldName")
  ELSE LET trimmed == TrimSpace(content)
       IN  IF ContainsRune(trimmed, "\n") THEN Result(pkg, "ContentNewline")
           ELSE IF name \in DOMAIN pkg.fields THEN Result(pkg, "FieldExists")
           ELSE Result([pkg EXCEPT !.fields = MapPut(@, name, trimmed)], "ok")

\* AddConffile, were it to store the path as given
AddConffileAsGiven(pkg, pathname) ==
  LET cleaned == Clean(pathname)
  IN  IF ~IsAbs(cleaned) THEN Result(pkg, "NotAbsolute")
      ELSE IF cleaned = <<"/">> THEN Result(pkg, "RootNotAllowed")
      ELSE Result([pkg EXCEPT !.conffiles = Append(@, pathname)], "ok")

\* AddConffile adds the specified configuration file to conffiles
AddConffileOp(pkg, pathname) ==
  LET cleaned == Clean(pathname)
  IN  IF ~IsAbs(cleaned) THEN Result(pkg, "NotAbsolute")
      ELSE IF cleaned = <<"/">> THEN Result(pkg, "RootNotAllowed")
      ELSE Result([pkg EXCEPT !.conffiles = Append(@, cleaned)], "ok")

\* readers: nil, one that yields data, one whose Read fails
NilReader == [kind |-> "nil", data |-> <<>>]

Reader(data) == [kind |-> "ok", data |-> data]

BrokenReader == [kind |-> "boom", data |-> <<>>]

\* AddScript, were it to replace a script that is present
AddScriptReplacing(pkg, name, r) ==
  IF r.kind = "nil" THEN Result(pkg, "NilReader")
  ELSE IF name = controlName \/ name = confName \/ ~allowedScriptNames(name)
  THEN Result(pkg, "ErrBadScriptName")
  ELSE IF r.kind = "boom" THEN Result(pkg, "CopyFailed")
  ELSE Result(
         [pkg EXCEPT !.scripts = MapPut(@, name,
            [header |-> [Name |-> name, Size |-> ByteLen(r.data)],
             data |-> Gzip(Text(r.data))])],
         "ok")

\* AddScript adds a script read from r
AddScriptOp(pkg, name, r) ==
  IF r.kind = "nil" THEN Result(pkg, "NilReader")
  ELSE IF name = controlName \/ name = confName \/ ~allowedScriptNames(name)
  THEN Result(pkg, "ErrBadScriptName")
  ELSE IF name \in DOMAIN pkg.scripts THEN Result(pkg, "ScriptExists")
  ELSE IF r.kind = "boom" THEN Result(pkg, "CopyFailed")
  ELSE Result(
         [pkg EXCEPT !.scripts = MapPut(@, name,
            [header |-> [Name |-> name, Size |-> ByteLen(r.data)],
             data |-> Gzip(Text(r.data))])],
         "ok")

\* os.FileInfo values: nil, or a name, a file type and permission bits
NilInfo == [kind |-> "nil", name |-> <<>>, mode |-> 0]

FileInfo(name, kind, mode) == [kind |-> kind, name |-> name, mode |-> mode]

\* tar.FileInfoHeader(info, "/"): sockets are not supported
FileInfoHeader(info) ==
  IF info.kind = "sock" THEN [err |-> "HeaderFailed"]
  ELSE [err |-> "ok",
        header |->
          [Name |-> IF info.kind = "dir" THEN info.name \o <<"/">>
                    ELSE info.name,
           Typeflag |-> info.kind,
           Mode |-> info.mode,
           Size |-> 0,
           Linkname |-> IF info.kind = "sym" THEN <<"/">> ELSE <<>>]]

\* (*tar.Header).FileInfo() of directoryHeader(basename): a directory
\* named path.Base(path.Clean(basename)), mode 0755
DirectoryInfo(basename) == FileInfo(Base(Clean(basename)), "dir", ModeDir)

RECURSIVE AddFileOp(_, _, _, _)
RECURSIVE addDir(_, _)

\* addDir adds the specified directory; os.ErrExist if it already exists
addDir(pkg, dir) ==
  LET cleaned == Clean(dir)
      updir == Split(cleaned)[1]
      basename == Split(cleaned)[2]
  IN  IF updir = <<>> THEN Result(pkg, "InvalidDirectory")
      ELSE IF basename = <<>> THEN Result(pkg, "ErrExist")
      ELSE AddFileOp(pkg, updir, DirectoryInfo(basename), NilReader)

\* AddFile adds a file to the specified directory
AddFileOp(pkg, dir, info, r) ==
  IF info.kind = "nil" THEN Result(pkg, "NilInfo")
  ELSE
    LET d == addDir(pkg, dir)
        fullpath == Join(dir, info.name)
        fih == FileInfoHeader(info)
    IN  IF d.err \notin {"ok", "ErrExist"} THEN Result(d.pkg, "AddDirFailed")
        ELSE IF fih.err # "ok" THEN Result(d.pkg, "HeaderFailed")
        ELSE IF fih.header.Typeflag \in {"reg", "sym"} /\ r.kind = "nil"
        THEN Result(d.pkg, "NilReader")
        ELSE IF fih.header.Typeflag \in {"reg", "sym"} /\ r.kind = "boom"
        THEN Result(d.pkg, "CopyFailed")
        ELSE
          LET header ==
                [fih.header EXCEPT
                   !.Name = IF fih.header.Typeflag = "dir"
                            THEN fullpath \o <<"/">> ELSE fullpath,
                   !.Size = IF fih.header.Typeflag = "reg"
                            THEN ByteLen(r.data) ELSE @,
                   !.Linkname = IF fih.header.Typeflag = "sym"
                                THEN r.data ELSE @]
              f == [header |-> header,
                    data |-> IF header.Typeflag = "reg"
                             THEN Gzip(Text(r.data)) ELSE NoData]
          IN  IF header.Name \in DOMAIN d.pkg.files
              THEN Result(d.pkg, "ErrExist")
              ELSE Result([d.pkg EXCEPT !.files = MapPut(@, header.Name, f)],
                          "ok")

(***************************************************************************)
(* Formats (format.go)                                                     *)
(***************************************************************************)

FormatUnknown == 0

formatGZip == 1

FormatTar == 2

FormatTarGZip == 3

\* the format is below FormatTar
UnsupportedBelowTar(format) == format < FormatTar

\* format&^formatGZip != FormatTar
Unsupported(format) == format - (format % 2) # FormatTar

\* format&formatGZip != 0
HasGZipFlag(format) == format % 2 = 1

(***************************************************************************)
(* I/O faults.  Every call of the writer that can return an I/O error is a *)
(* site; a write is run with the set of sites that fail in it.             *)
(***************************************************************************)

FinishSteps == {"TarClose", "GzipClose", "Seek", "Rewind", "Remove"}

InnerSites(prefix) ==
  {<<prefix, "TempFile">>, <<prefix, "Root">>, <<prefix, "Header">>,
   <<prefix, "Copy">>} \cup {<<prefix, step>> : step \in FinishSteps}

OuterSites == {<<"outer", "Marker">>, <<"outer", "TarClose">>,
               <<"outer", "GzipClose">>}

Sites == OuterSites \cup InnerSites("ipkcontrol") \cup InnerSites("ipkdata")

(***************************************************************************)
(* The staged archive writer (archive.go)                                  *)
(***************************************************************************)

\* compressionLevel
compressionLevel(compress) ==
  IF compress THEN BestCompression ELSE NoCompression

\* a temporary backing file: whether its directory entry exists and whether
\* its handle is open
TempFile(prefix, linked, open) ==
  [prefix |-> prefix, linked |-> linked, open |-> open]

\* the first error among the steps, in their order
FirstError(steps) ==
  IF \E i \in 1..Len(steps) : steps[i][1]
  THEN steps[CHOOSE i \in 1..Len(steps) :
               steps[i][1] /\ \A j \in 1..(i - 1) : ~steps[j][1]][2]
  ELSE "ok"

\* Finish: close the tar writer and the gzip writer, take the size, rewind,
\* remove the file; on error close the handle.  failed: the tar writer
\* already holds a write error, which its Close returns.
Finish(prefix, entries, compress, failed, faults) ==
  LET tarErr == failed \/ <<prefix, "TarClose">> \in faults
      gzErr == failed \/ <<prefix, "GzipClose">> \in faults
      seekErr == <<prefix, "Seek">> \in faults
      rewindErr == <<prefix, "Rewind">> \in faults
      removeErr == <<prefix, "Remove">> \in faults
      err == FirstError(<<
               <<tarErr, "TarCloseFailed">>, <<gzErr, "GzipCloseFailed">>,
               <<seekErr, "SeekFailed">>, <<rewindErr, "RewindFailed">>,
               <<removeErr, "RemoveFailed">> >>)
      stream == GzipStream(TarStream(entries, ~tarErr),
                           compressionLevel(compress), ~gzErr)
  IN  [file |-> TempFile(prefix, removeErr, err = "ok"),
       stream |-> stream,
       size |-> IF seekErr THEN -1 ELSE StreamSize(stream),
       offset |-> IF rewindErr THEN StreamSize(stream) ELSE 0,
       err |-> err]

\* addArchiveEntry: the entry written for a header and a compressed buffer
\* (nil for directories and other special files); the header's name is
\* replaced by its slash form
addArchiveEntry(header, gzdata) ==
  Entry([header EXCEPT !.Name = slash(@)],
        IF gzdata.fmt = "nil" THEN Text(<<>>) ELSE Gunzip(gzdata))

(***************************************************************************)
(* Writing the control archive (control.go)                                *)
(***************************************************************************)

mandatoryFields ==
  <<ControlPackage, ControlVersion, ControlArch, ControlMaintainer,
    ControlDesc>>

Range(q) == {q[i] : i \in 1..Len(q)}

\* the orders in which a range over a Go map with key set S may visit it
Orders(S) ==
  {q \in [1..Cardinality(S) -> S] : \A i, j \in 1..Cardinality(S) :
                                       q[i] = q[j] => i = j}

\* fmt.Sprintf("%s: %s\n", field, content)
FieldLine(field, content) == field \o <<":", " ">> \o content \o <<"\n">>

RECURSIVE FieldLines(_, _)
FieldLines(fields, names) ==
  IF names = <<>> THEN <<>>
  ELSE FieldLine(Head(names), fields[Head(names)])
         \o FieldLines(fields, Tail(names))

\* fmt.Errorf("Mandatory control field '%s' missing", field), by the
\* position of the field in mandatoryFields
MandatoryFieldMissing ==
  <<"Mandatory control field 'Package' missing",
    "Mandatory control field 'Version' missing",
    "Mandatory control field 'Architecture' missing",
    "Mandatory control field 'Maintainer' missing",
    "Mandatory control field 'Description' missing">>

\* addControl, were it to leave out the mandatory fields that are missing
addControlLenient(pkg, order) ==
  LET buf == FieldLines(pkg.fields,
                        SelectSeq(mandatoryFields,
                                  LAMBDA f : f \in DOMAIN pkg.fields))
               \o FieldLines(pkg.fields, order)
  IN  [err |-> "ok",
       entries |-> <<Entry(fileHeader(slash(controlName), ByteLen(buf)),
                           Text(buf))>>]

\* addControl: the control file entry, the mandatory fields first, then the
\* remaining fields in the order the map range visits them
addControl(pkg, order) ==
  IF \E i \in 1..Len(mandatoryFields) :
       mandatoryFields[i] \notin DOMAIN pkg.fields
  THEN [err |-> MandatoryFieldMissing[
          CHOOSE i \in 1..Len(mandatoryFields) :
            /\ mandatoryFields[i] \notin DOMAIN pkg.fields
            /\ \A j \in 1..(i - 1) : mandatoryFields[j] \in DOMAIN pkg.fields],
        entries |-> <<>>]
  ELSE LET buf == FieldLines(pkg.fields, mandatoryFields)
                    \o FieldLines(pkg.fields, order)
       IN  [err |-> "ok",
            entries |-> <<Entry(fileHeader(slash(controlName), ByteLen(buf)),
                                Text(buf))>>]

RECURSIVE ConffileLines(_)
ConffileLines(files) ==
  IF files = <<>> THEN <<>>
  ELSE Head(files) \o <<"\n">> \o ConffileLines(Tail(files))

\* addConffiles: nothing when there are no configuration files; else the
\* list is sorted in place and written, one path per line
addConffiles(pkg) ==
  IF Len(pkg.conffiles) = 0 THEN [pkg |-> pkg, entries |-> <<>>]
  ELSE LET sorted == SortStrings(pkg.conffiles)
           buf == ConffileLines(sorted)
       IN  [pkg |-> [pkg EXCEPT !.conffiles = sorted],
            entries |-> <<Entry(fileHeader(slash(confName), ByteLen(buf)),
                                Text(buf))>>]

\* addScript: a regular file entry made executable
addScript(name, size, gzdata) ==
  addArchiveEntry([fileHeader(name, size) EXCEPT !.Mode = BitOr(@, ModeExec)],
                  gzdata)

RECURSIVE ScriptEntries(_, _)
ScriptEntries(scripts, names) ==
  IF names = <<>> THEN <<>>
  ELSE LET f == scripts[Head(names)]
       IN  <<addScript(Head(names), f.header.Size, f.data)>>
             \o ScriptEntries(scripts, Tail(names))

\* fillControlArchive: the root directory, the control file, the conffiles
\* and the scripts.  failed: the tar writer returned a write error.
fillControlArchive(pkg, faults, fieldOrder, scriptOrder) ==
  LET root == <<Entry(directoryHeader(<<".", "/">>), Text(<<>>))>>
      control == addControl(pkg, fieldOrder)
      conf == addConffiles(pkg)
  IN  IF <<"ipkcontrol", "Root">> \in faults
      THEN [pkg |-> pkg, entries |-> <<>>, err |-> "WriteFailed",
            failed |-> TRUE]
      ELSE IF control.err # "ok"
      THEN [pkg |-> pkg, entries |-> root, err |-> control.err,
            failed |-> FALSE]
      ELSE [pkg |-> conf.pkg,
            entries |-> root \o control.entries \o conf.entries
                          \o ScriptEntries(pkg.scripts, scriptOrder),
            err |-> "ok", failed |-> FALSE]

(***************************************************************************)
(* Writing the data archive (data.go)                                      *)
(***************************************************************************)

RECURSIVE FileEntries(_, _)
FileEntries(files, paths) ==
  IF paths = <<>> THEN <<>>
  ELSE LET f == files[Head(paths)]
       IN  <<addArchiveEntry(f.header, f.data)>>
             \o FileEntries(files, Tail(paths))

\* fillDataArchive: the root directory, then the entries ordered by path
\* name; addArchiveEntry rewrites each stored header's name
fillDataArchive(pkg, faults) ==
  IF <<"ipkdata", "Root">> \in faults
  THEN [pkg |-> pkg, entries |-> <<>>, err |-> "WriteFailed", failed |-> TRUE]
  ELSE [pkg |-> [pkg EXCEPT !.files =
                   [k \in DOMAIN pkg.files |->
                      [pkg.files[k] EXCEPT !.header.Name = slash(@)]]],
        entries |-> <<addArchiveEntry(directoryHeader(<<".", "/">>), NoData)>>
                      \o FileEntries(pkg.files, SortSet(DOMAIN pkg.files)),
        err |-> "ok", failed |-> FALSE]

(***************************************************************************)
(* Staging a sub-archive and copying it into the outer tar                 *)
(* (control.go, data.go)                                                   *)
(***************************************************************************)

\* createControlArchive, createDataArchive: open the temporary archive, fill
\* it, and Finish it in a deferred call whatever fill returned; the error is
\* fill's if it failed, else Finish's
createArchive(prefix, fill, compress, faults) ==
  IF <<prefix, "TempFile">> \in faults
  THEN [pkg |-> fill.pkg, created |-> <<>>, stream |-> NoData, size |-> -1,
        err |-> "TempFileFailed"]
  ELSE LET fin == Finish(prefix, fill.entries, compress, fill.failed, faults)
       IN  [pkg |-> fill.pkg, created |-> <<fin.file>>,
            stream |-> fin.stream, size |-> fin.size,
            err |-> IF fill.err # "ok" THEN fill.err ELSE fin.err]

\* the outer tar writer: the entries written and whether a write failed
OuterWriter(entries, failed) == [entries |-> entries, failed |-> failed]

closeFiles(files) == [i \in 1..Len(files) |-> [files[i] EXCEPT !.open = FALSE]]

\* the common body of writeControlArchive and writeDataArchive: on an error
\* of create the archive is returned as it is; else it is closed on return,
\* after its header and its bytes went to the outer tar.  files: the
\* temporary files made so far.
writeArchive(prefix, name, made, outer, files, faults) ==
  IF made.err # "ok"
  THEN [pkg |-> made.pkg, outer |-> outer, tmp |-> files \o made.created,
        err |-> made.err]
  ELSE IF <<prefix, "Header">> \in faults
  THEN [pkg |-> made.pkg,
        outer |-> OuterWriter(
                    Append(outer.entries,
                           CutEntry(fileHeader(slash(name), made.size))),
                    TRUE),
        tmp |-> files \o closeFiles(made.created), err |-> "HeaderFailed"]
  ELSE IF <<prefix, "Copy">> \in faults
  THEN [pkg |-> made.pkg,
        outer |-> OuterWriter(
                    Append(outer.entries,
                           CutEntry(fileHeader(slash(name), made.size))),
                    TRUE),
        tmp |-> files \o closeFiles(made.created), err |-> "CopyFailed"]
  ELSE [pkg |-> made.pkg,
        outer |-> OuterWriter(
                    Append(outer.entries,
                           Entry(fileHeader(slash(name), made.size),
                                 made.stream)),
                    FALSE),
        tmp |-> files \o closeFiles(made.created), err |-> "ok"]

createControlArchive(pkg, compress, faults, fieldOrder, scriptOrder) ==
  createArchive("ipkcontrol",
                fillControlArchive(pkg, faults, fieldOrder, scriptOrder),
                compress, faults)

writeControlArchive(pkg, outer, files, compress, faults, fieldOrder, scriptOrder) ==
  writeArchive("ipkcontrol", controlArchiveName,
               createControlArchive(pkg, compress, faults, fieldOrder,
                                    scriptOrder),
               outer, files, faults)

createDataArchive(pkg, compress, faults) ==
  createArchive("ipkdata", fillDataArchive(pkg, faults), compress, faults)

writeDataArchive(pkg, outer, files, compress, faults) ==
  writeArchive("ipkdata", dataArchiveName,
               createDataArchive(pkg, compress, faults), outer, files, faults)

(***************************************************************************)
(* Write (container writer)                                                *)
(***************************************************************************)

debianBinaryName ==
  <<".", "/", "d", "e", "b", "i", "a", "n", "-", "b", "i", "n", "a", "r", "y">>

debianBinaryContent == <<"2", ".", "0", "\n">>

\* writeDebianBinary
writeDebianBinary(faults) ==
  IF <<"outer", "Marker">> \in faults
  THEN [outer |-> OuterWriter(
                    <<CutEntry(fileHeader(debianBinaryName,
                                          ByteLen(debianBinaryContent)))>>,
                    TRUE),
        err |-> "MarkerFailed"]
  ELSE [outer |-> OuterWriter(
                    <<Entry(fileHeader(debianBinaryName,
                                       ByteLen(debianBinaryContent)),
                            Text(debianBinaryContent))>>,
                    FALSE),
        err |-> "ok"]

\* writeTar after the marker: its error is returned, else the control
\* archive is written
writeTarControl(pkg, marker, compress, faults, fieldOrder, scriptOrder) ==
  IF marker.err # "ok"
  THEN [pkg |-> pkg, outer |-> marker.outer, tmp |-> <<>>, err |-> marker.err]
  ELSE writeControlArchive(pkg, marker.outer, <<>>, compress, faults,
                           fieldOrder, scriptOrder)

\* writeTar after the control archive: its error is returned, else the data
\* archive is written
writeTarData(control, compress, faults) ==
  IF control.err # "ok" THEN control
  ELSE writeDataArchive(control.pkg, control.outer, control.tmp, compress,
                        faults)

\* writeTar: the marker, the control archive, the data archive; the first
\* error ends it
writeTar(pkg, compress, faults, fieldOrder, scriptOrder) ==
  writeTarData(
    writeTarControl(pkg, writeDebianBinary(faults), compress, faults,
                    fieldOrder, scriptOrder),
    compress, faults)

\* the stream before anything was written to it
NoStream == Text(<<>>)

\* Write's deferred calls: the tar writer is closed, then the gzip writer.
\* The tar writer's error is returned if none occurred before.  The gzip
\* writer's error is assigned to the err that
\* `gzw, err := gzip.NewWriterLevel` declares inside the if block, not to the
\* result: Write does not return it.
closeWriters(body, gz, faults) ==
  LET tarErr == body.outer.failed \/ <<"outer", "TarClose">> \in faults
      gzErr == gz /\ (tarErr \/ <<"outer", "GzipClose">> \in faults)
      \* the footer the tar writer wrote reaches the output only if the
      \* gzip writer around it flushes
      tarStream == TarStream(body.outer.entries, ~tarErr /\ ~gzErr)
  IN  [pkg |-> body.pkg,
       stream |-> IF gz THEN GzipStream(tarStream, BestCompression, ~gzErr)
                  ELSE tarStream,
       tmp |-> body.tmp,
       err |-> IF body.err # "ok" THEN body.err
               ELSE IF tarErr THEN "TarCloseFailed"
               ELSE "ok"]

\* Write writes the package to a writer in the given format
WriteOp(pkg, format, faults, fieldOrder, scriptOrder) ==
  IF Unsupported(format)
  THEN [pkg |-> pkg, stream |-> NoStream, tmp |-> <<>>,
        err |-> "UnsupportedFormat"]
  ELSE closeWriters(writeTar(pkg, ~HasGZipFlag(format), faults, fieldOrder,
                             scriptOrder),
                    HasGZipFlag(format), faults)

(***************************************************************************)
(* Reading                                                                 *)
(***************************************************************************)

\* how a tar.Reader's Next ends after the last entry: io.EOF at the footer
\* or at the end of the input; an error when the gzip stream below it is cut
EndOfTar(tarStream, gzipCut) ==
  IF tarStream.closed \/ ~gzipCut THEN "EOF" ELSE "UnexpectedEOF"

\* tar.NewReader(r): the entries Next yields and how it ends after the last
\* one; an empty input ends at once, and anything else that is no tar stream
\* fails at the first header
NewTarReader(stream, gzipCut) ==
  IF stream.fmt = "tar"
  THEN [entries |-> stream.body, end |-> EndOfTar(stream, gzipCut)]
  ELSE IF stream.fmt = "text" /\ stream.body = <<>>
  THEN [entries |-> <<>>, end |-> "EOF"]
  ELSE [entries |-> <<>>, end |-> "ErrHeader"]

\* bufio.ScanLines drops the end-of-line marker: \n, or \r\n
DropCR(line) ==
  IF line # <<>> /\ line[Len(line)] = "\r"
  THEN SubSeq(line, 1, Len(line) - 1) ELSE line

\* a bufio.Scanner with ScanLines over a text: the lines Scan yields, each
\* without its end-of-line marker (a last line without marker counts if not
\* empty), and what Err returns after them: bufio.ErrTooLong at a line that
\* does not fit the buffer
RECURSIVE ScanLines(_)
ScanLines(text) ==
  IF text = <<>> THEN [lines |-> <<>>, err |-> "ok"]
  ELSE LET i == IndexByte(text, "\n")
           line == IF i = 0 THEN text ELSE SubSeq(text, 1, i - 1)
       IN  IF ByteLen(line) >= MaxScanTokenSize
           THEN [lines |-> <<>>, err |-> "ErrTooLong"]
           ELSE [ScanLines(IF i = 0 THEN <<>> ELSE Drop(text, i))
                   EXCEPT !.lines = <<DropCR(line)>> \o @]

\* readControlLine: key and value around the first colon; a line without
\* colon is ignored
readControlLine(pkg, line) ==
  LET colonIdx == IndexByte(line, ":")
  IN  IF colonIdx = 0 THEN Result(pkg, "ok")
      ELSE LET added == AddFieldOp(pkg, SubSeq(line, 1, colonIdx - 1),
                                   Drop(line, colonIdx))
           IN  IF added.err # "ok" THEN Result(pkg, "AddFieldFailed")
               ELSE added

\* the loop of readControl: the lines in order, up to the
\* first error; after the last line, the scanner's error
RECURSIVE readControlLines(_, _)
readControlLines(pkg, scanner) ==
  IF scanner.lines = <<>> THEN Result(pkg, scanner.err)
  ELSE LET r == readControlLine(pkg, Head(scanner.lines))
       IN  IF r.err # "ok" THEN r
           ELSE readControlLines(r.pkg, [scanner EXCEPT !.lines = Tail(@)])

\* readControl reads in the control file, storing the fields
readControl(pkg, text) == readControlLines(pkg, ScanLines(text))

\* readConffile: empty lines are ignored
readConffile(pkg, line) ==
  IF line = <<>> THEN Result(pkg, "ok") ELSE AddConffileOp(pkg, line)

RECURSIVE readConffileLines(_, _)
readConffileLines(pkg, scanner) ==
  IF scanner.lines = <<>> THEN Result(pkg, scanner.err)
  ELSE LET r == readConffile(pkg, Head(scanner.lines))
       IN  IF r.err # "ok" THEN r
           ELSE readConffileLines(r.pkg, [scanner EXCEPT !.lines = Tail(@)])

\* readConffiles: the lines in order, then the list is sorted
readConffiles(pkg, text) ==
  LET r == readConffileLines(pkg, ScanLines(text))
  IN  IF r.err # "ok" THEN r
      ELSE Result([r.pkg EXCEPT !.conffiles = SortStrings(@)], "ok")

RECURSIVE readControlEntries(_, _, _, _, _)
RECURSIVE readControlNext(_, _, _, _, _, _)

\* the end of a case of readControlArchive's switch: the error is returned,
\* else the loop goes on
readControlNext(r, failure, entries, controlRead, conffilesRead, end) ==
  IF r.err # "ok" THEN Result(r.pkg, failure)
  ELSE readControlEntries(r.pkg, entries, controlRead, conffilesRead, end)

\* the default case, were it to return every error of AddScript
readScriptNextStrict(r, entries, controlRead, conffilesRead, end) ==
  readControlNext(r, "ReadScriptFailed", entries, controlRead, conffilesRead,
                  end)

\* the default case: ErrBadScriptName skips the entry
readScriptNext(r, entries, controlRead, conffilesRead, end) ==
  IF r.err = "ErrBadScriptName"
  THEN readControlEntries(r.pkg, entries, controlRead, conffilesRead, end)
  ELSE readControlNext(r, "ReadScriptFailed", entries, controlRead,
                       conffilesRead, end)

\* the loop of readControlArchive over the entries, and what follows it
readControlEntries(pkg, entries, controlRead, conffilesRead, end) ==
  IF entries = <<>>
  THEN IF end # "EOF" THEN Result(pkg, "TarHeaderFailed")
       ELSE IF ~controlRead THEN Result(pkg, "NoControlFile")
       ELSE Result(pkg, "ok")
  ELSE
    LET e == Head(entries)
        name == Clean(unslash(e.header.Name))
    IN  IF e.short THEN Result(pkg, "TarHeaderFailed")
        ELSE IF ~IsRegular(e.header.Typeflag)
        THEN readControlEntries(pkg, Tail(entries), controlRead,
                                conffilesRead, end)
        ELSE IF name = controlName
        THEN IF controlRead THEN Result(pkg, "ControlAlreadyRead")
             ELSE readControlNext(readControl(pkg, e.content.body),
                                  "ReadControlFailed", Tail(entries), TRUE,
                                  conffilesRead, end)
        ELSE IF name = confName
        THEN IF conffilesRead THEN Result(pkg, "ConffilesAlreadyRead")
             ELSE readControlNext(readConffiles(pkg, e.content.body),
                                  "ReadConffilesFailed", Tail(entries),
                                  controlRead, TRUE, end)
        ELSE readScriptNext(AddScriptOp(pkg, name, Reader(e.content.body)),
                            Tail(entries), controlRead, conffilesRead, end)

\* readControlArchive reads in control files from a control archive
readControlArchive(pkg, stream) ==
  IF ~IsGzip(stream) THEN Result(pkg, "GzipOpenFailed")
  ELSE LET tr == NewTarReader(Gunzip(stream), ~stream.closed)
       IN  readControlEntries(pkg, tr.entries, FALSE, FALSE, tr.end)

\* setFileData: a regular file's content is compressed into a fresh buffer
setFileData(pkg, name, header, content) ==
  [pkg EXCEPT !.files = MapPut(@, name,
     [header |-> header,
      data |-> IF IsRegular(header.Typeflag) THEN Gzip(content)
               ELSE NoData])]

\* a test that lets names through that lead out of the tree
SkippedRootOnly(name) == name = <<".">>

\* name == "." || name == ".." || strings.HasPrefix(name, "../")
Skipped(name) ==
  name = <<".">> \/ name = <<".", ".">> \/ HasPrefix(name, <<".", ".", "/">>)

RECURSIVE readDataEntries(_, _, _)
RECURSIVE readDataEntry(_, _, _, _, _)

\* the body of readDataArchive's loop for an entry and its cleaned name
readDataEntry(pkg, e, name, entries, end) ==
  IF Skipped(name) THEN readDataEntries(pkg, entries, end)
  ELSE IF name \in DOMAIN pkg.files THEN Result(pkg, "DuplicateFileData")
  ELSE readDataEntries(setFileData(pkg, <<"/">> \o name, e.header, e.content),
                       entries, end)

\* the loop of readDataArchive over the entries
readDataEntries(pkg, entries, end) ==
  IF entries = <<>>
  THEN IF end # "EOF" THEN Result(pkg, "TarHeaderFailed")
       ELSE Result(pkg, "ok")
  ELSE IF Head(entries).short THEN Result(pkg, "TarHeaderFailed")
  ELSE readDataEntry(pkg, Head(entries),
                     Clean(unslash(Head(entries).header.Name)),
                     Tail(entries), end)

\* readDataArchive reads in the files from a data archive
readDataArchive(pkg, stream) ==
  IF ~IsGzip(stream) THEN Result(pkg, "GzipOpenFailed")
  ELSE LET tr == NewTarReader(Gunzip(stream), ~stream.closed)
       IN  readDataEntries(pkg, tr.entries, tr.end)

\* what Read returns on an error: no package
NoPackage(err) == Result(New, err)

RECURSIVE readTarEntries(_, _, _, _, _)
RECURSIVE readTarNext(_, _, _, _, _, _)

\* the end of a case of readTar's switch: the error is returned, else the
\* loop goes on
readTarNext(r, failure, entries, dataRead, controlRead, end) ==
  IF r.err # "ok" THEN NoPackage(failure)
  ELSE readTarEntries(r.pkg, entries, dataRead, controlRead, end)

\* the loop of readTar over the entries of the outer archive, and what
\* follows it
readTarEntries(result, entries, dataRead, controlRead, end) ==
  IF entries = <<>>
  THEN IF end # "EOF" THEN NoPackage("TarHeaderFailed")
       ELSE IF ~controlRead THEN NoPackage("NoControlArchive")
       ELSE Result(result, "ok")
  ELSE
    LET e == Head(entries)
        name == unslash(e.header.Name)
    IN  IF e.short THEN NoPackage("TarHeaderFailed")
        ELSE IF ~IsRegular(e.header.Typeflag)
        THEN readTarEntries(result, Tail(entries), dataRead, controlRead, end)
        ELSE IF name = controlArchiveName
        THEN IF controlRead THEN NoPackage("ControlArchiveAlreadyRead")
             ELSE readTarNext(readControlArchive(result, e.content),
                              "ReadControlArchiveFailed", Tail(entries),
                              dataRead, TRUE, end)
        ELSE IF name = dataArchiveName
        THEN IF dataRead THEN NoPackage("DataArchiveAlreadyRead")
             ELSE readTarNext(readDataArchive(result, e.content),
                              "ReadDataArchiveFailed", Tail(entries), TRUE,
                              controlRead, end)
        ELSE readTarEntries(result, Tail(entries), dataRead, controlRead, end)

\* readTar reads in an IPK from a tar reader
readTar(tr) == readTarEntries(New, tr.entries, FALSE, FALSE, tr.end)

\* Read reads an IPK package in the given format from a reader
ReadOp(stream, format) ==
  IF Unsupported(format) THEN NoPackage("UnsupportedFormat")
  ELSE IF HasGZipFlag(format) /\ ~IsGzip(stream)
  THEN NoPackage("GzipOpenFailed")
  ELSE readTar(IF HasGZipFlag(format)
               THEN NewTarReader(Gunzip(stream), ~stream.closed)
               ELSE NewTarReader(stream, FALSE))

\* an io.ReadSeeker: a stream and the number of its bytes already consumed
ReadSeeker(stream, offset) == [stream |-> stream, offset |-> offset]

\* r.Seek(pos, io.SeekStart)
SeekStart(r, pos) == ReadSeeker(r.stream, pos)

\* the reader after gzip.NewReader(r) looked for a gzip header in it: the
\* bytes it looked at are consumed
Probed(r) ==
  ReadSeeker(r.stream,
             IF StreamSize(r.stream) > r.offset THEN r.offset + 1
             ELSE r.offset)

\* Read(r, FormatTar) on a reader that is not at the start of its stream: the
\* tar reader does not find a header where it starts
ReadAt(r, format) ==
  IF r.offset = 0 THEN ReadOp(r.stream, format)
  ELSE IF Unsupported(format) THEN NoPackage("UnsupportedFormat")
  ELSE IF HasGZipFlag(format) THEN NoPackage("GzipOpenFailed")
  ELSE NoPackage("TarHeaderFailed")

\* Read(gzr, FormatTar), gzr a gzip.Reader over the stream: what Read reads
\* is the stream inside the gzip layer, which ends early when the layer is cut
ReadGunzipped(stream, format) ==
  IF Unsupported(format) THEN NoPackage("UnsupportedFormat")
  ELSE IF HasGZipFlag(format) THEN NoPackage("GzipOpenFailed")
  ELSE readTar(NewTarReader(Gunzip(stream), ~stream.closed))

\* ReadDetectFormat reads an IPK package from a reader/seeker, detecting the
\* format; seekFaults are the Seek calls that fail
ReadDetectFormat(r, seekFaults) ==
  IF "SeekCurrent" \in seekFaults THEN NoPackage("SeekFailed")
  ELSE LET pos == r.offset
           probed == Probed(r)
       IN  IF ~IsGzip(r.stream)
           THEN IF "SeekStart" \in seekFaults THEN NoPackage("RewindFailed")
                ELSE ReadAt(SeekStart(probed, pos), FormatTar)
           ELSE ReadGunzipped(r.stream, FormatTar)

(***************************************************************************)
(* The caller.  It authors a package (AddField, AddConffile, AddScript,    *)
(* AddFile), writes it, reads the stream back, and then either drops the   *)
(* stream or goes on with the package it read.  One stream is outstanding  *)
(* at a time.                                                              *)
(***************************************************************************)

MaxConffiles == 2

MaxScripts == 1

MaxFiles == 3

\* the entries a package holds besides its mandatory fields
Extras(pkg) ==
  Cardinality(DOMAIN pkg.fields \ Range(mandatoryFields))
    + Len(pkg.conffiles) + Cardinality(DOMAIN pkg.scripts)
    + Cardinality(DOMAIN pkg.files)

MaxExtras == 2

\* the packages a caller of the whole interface builds
Bounded(pkg) ==
  /\ Len(pkg.conffiles) <= MaxConffiles
  /\ Cardinality(DOMAIN pkg.scripts) <= MaxScripts
  /\ Extras(pkg) <= MaxExtras

\* the file trees a caller of AddFile builds
BoundedFiles(pkg) == Cardinality(DOMAIN pkg.files) <= MaxFiles

\* the record of the last call on the package: the operation, its error, and
\* for Write the format and the package as it was before
Op(name, err) ==
  [op |-> name, err |-> err, format |-> FormatUnknown, before |-> New]

\* what a Read returned, and the format it was given
ReadResult(res, format) ==
  [pkg |-> res.pkg, err |-> res.err, format |-> format, via |-> "Read"]

\* what a ReadDetectFormat returned
DetectResult(res) ==
  [pkg |-> res.pkg, err |-> res.err, format |-> FormatUnknown,
   via |-> "ReadDetectFormat"]

\* no package has been read
NoRead == ReadResult(Result(New, "none"), FormatUnknown)

Idle == w = NoStream /\ rd = NoRead

\* an archiveWriter on a temporary file, after its entries were written and
\* before Finish: the file is on disk and open, the write offset is at its
\* end.  failed: the tar writer holds a write error.  faults: the steps of
\* Finish that will fail.
Filled(entries, compress, failed, faults) ==
  [entries |-> entries, compress |-> compress, failed |-> failed,
   faults |-> faults, done |-> <<>>, footer |-> FALSE, trailer |-> FALSE,
   size |-> -1, rewound |-> FALSE, file |-> TempFile("ipkcontrol", TRUE, TRUE),
   err |-> "ok", returned |-> FALSE]

\* a path name no function was applied to yet
Given(name) == [given |-> name, now |-> name, calls |-> <<>>]

Init ==
  /\ t = New
  /\ w = NoStream
  /\ tmp = <<>>
  /\ rd = NoRead
  /\ last = Op("New", "ok")
  /\ canon = Given(<<>>)
  /\ aw = Filled(<<>>, FALSE, FALSE, {})

FieldNames ==
  {ControlPackage, ControlVersion, ControlArch, ControlMaintainer,
   ControlDesc, ControlHomepage, <<>>, <<"1">>}

PlainContents == {<<"1">>}

RichContents ==
  {<<" ", "a", ":", "b", "\r", "\n">>, <<"a", "\n", "b">>, <<LongRun>>}

\* the contents the caller gives a field
FieldContents(name) ==
  IF name \in Range(mandatoryFields) THEN PlainContents ELSE RichContents

\* all mandatory fields are present
Complete(pkg) == Range(mandatoryFields) \subseteq DOMAIN pkg.fields

AddField ==
  /\ Idle
  /\ \E name \in FieldNames : \E content \in FieldContents(name) :
       LET r == AddFieldOp(t, name, content)
       IN  /\ Bounded(r.pkg)
           /\ t' = r.pkg
           /\ last' = Op("AddField", r.err)
  /\ UNCHANGED <<w, tmp, rd, canon, aw>>

ConffilePaths ==
  {<<"/", "e", "/", "x">>, <<"/", "e", "/", ".", ".", "/", "b">>, <<"e">>}

AddConffile ==
  /\ Idle
  /\ \E pathname \in ConffilePaths :
       LET r == AddConffileOp(t, pathname)
       IN  /\ Bounded(r.pkg)
           /\ t' = r.pkg
           /\ last' = Op("AddConffile", r.err)
  /\ UNCHANGED <<w, tmp, rd, canon, aw>>

\* paths as a caller may hold them: any string is a path name
RawConffilePaths ==
  {<<"/", "e", "/", "x">>, <<"/", "b">>, <<"/", "e", "\n", "/", "x">>}

AddRawConffile ==
  /\ Idle
  /\ \E pathname \in RawConffilePaths :
       LET r == AddConffileOp(t, pathname)
       IN  /\ Len(r.pkg.conffiles) <= MaxConffiles
           /\ t' = r.pkg
           /\ last' = Op("AddConffile", r.err)
  /\ UNCHANGED <<w, tmp, rd, canon, aw>>

ScriptNames == {<<"s">>, controlName}

ScriptReaders == {NilReader, Reader(<<"c">>)}

AddScript ==
  /\ Idle
  /\ \E name \in ScriptNames : \E r \in ScriptReaders :
       LET res == AddScriptOp(t, name, r)
       IN  /\ Bounded(res.pkg)
           /\ t' = res.pkg
           /\ last' = Op("AddScript", res.err)
  /\ UNCHANGED <<w, tmp, rd, canon, aw>>

FileDirs == {<<"/">>, <<"/", "e">>, <<"e">>}

FileInfos ==
  {NilInfo,
   FileInfo(<<"x">>, "reg", ModeFile),
   FileInfo(<<"x">>, "dir", ModeDir),
   FileInfo(<<"x">>, "sym", ModeDir),
   FileInfo(<<"e">>, "reg", ModeFile),
   FileInfo(<<"x">>, "sock", ModeFile)}

FileReaders == {NilReader, Reader(<<"c">>), BrokenReader}

\* AddFile with its arguments drawn from the given sets
AddFileFrom(dirs, infos, readers) ==
  /\ Idle
  /\ \E dir \in dirs : \E info \in infos : \E r \in readers :
       LET res == AddFileOp(t, dir, info, r)
       IN  /\ BoundedFiles(res.pkg)
           /\ t' = res.pkg
           /\ last' = Op("AddFile", res.err)
  /\ UNCHANGED <<w, tmp, rd, canon, aw>>

\* a caller that adds one regular file to the root directory
AddRootFile ==
  /\ Extras(t) < MaxExtras \/ DOMAIN t.files # {}
  /\ AddFileFrom({<<"/">>}, {FileInfo(<<"x">>, "reg", ModeFile)},
                 {Reader(<<"c">>)})

\* a caller that sets the mandatory fields first, then builds the file tree
AddFile == Complete(t) /\ AddFileFrom(FileDirs, FileInfos, FileReaders)

\* a caller that adds fields beyond the mandatory ones
OptionalFieldNames == {ControlDep, ControlHomepage}

AddOptionalField ==
  /\ Idle
  /\ \E name \in OptionalFieldNames : \E content \in PlainContents :
       LET r == AddFieldOp(t, name, content)
       IN  /\ t' = r.pkg
           /\ last' = Op("AddField", r.err)
  /\ UNCHANGED <<w, tmp, rd, canon, aw>>

\* file infos as os.Stat and a directory walk hand them out: the name is the
\* last element of the path they were asked for, which may be .
TreeDirs == {<<"/">>, <<"/", "e">>, <<"/", "e", "/", "a">>}

TreeInfos ==
  {FileInfo(<<"x">>, "reg", ModeFile),
   FileInfo(<<"x">>, "dir", ModeDir),
   FileInfo(<<"x">>, "sym", ModeDir),
   FileInfo(<<"e">>, "reg", ModeFile),
   FileInfo(<<".">>, "dir", ModeDir)}

\* a caller that builds a file tree
AddTreeFile == AddFileFrom(TreeDirs, TreeInfos, {Reader(<<"c">>)})

AddMandatoryField ==
  /\ Idle
  /\ \E i \in 1..Len(mandatoryFields) : \E content \in PlainContents :
       LET r == AddFieldOp(t, mandatoryFields[i], content)
       IN  /\ t' = r.pkg
           /\ last' = Op("AddField", r.err)
  /\ UNCHANGED <<w, tmp, rd, canon, aw>>

Formats == {FormatUnknown, formatGZip, FormatTar, FormatTarGZip}

\* the sets of sites that fail in one write: none, or one
FaultSets == {{}} \cup {{site} : site \in Sites}

\* Write in an environment whose failing sites are drawn from faultSets
Write(faultSets) ==
  /\ Idle
  /\ \E format \in Formats : \E faults \in faultSets :
     \E fieldOrder \in Orders(DOMAIN t.fields \ Range(mandatoryFields)) :
     \E scriptOrder \in Orders(DOMAIN t.scripts) :
     \E res \in {WriteOp(t, format, faults, fieldOrder, scriptOrder)} :
           /\ t' = res.pkg
           /\ w' = res.stream
           /\ tmp' = res.tmp
           /\ last' = [op |-> "Write", err |-> res.err, format |-> format,
                       before |-> t]
  /\ UNCHANGED <<rd, canon, aw>>

\* Write where no I/O call fails
WriteSound == Write({{}})

\* Write where I/O calls may fail
WriteFaulty == Write(FaultSets)

Read ==
  /\ w # NoStream
  /\ rd = NoRead
  /\ \E format \in Formats :
       rd' = ReadResult(ReadOp(w, format), format)
  /\ UNCHANGED <<t, w, tmp, last, canon, aw>>

\* the Seek calls that fail in one ReadDetectFormat: none, or one
SeekFaultSets == {{}, {"SeekCurrent"}, {"SeekStart"}}

\* the caller hands the stream, positioned at its start, to ReadDetectFormat
ReadDetect ==
  /\ w # NoStream
  /\ rd = NoRead
  /\ \E seekFaults \in SeekFaultSets :
       rd' = DetectResult(ReadDetectFormat(ReadSeeker(w, 0), seekFaults))
  /\ UNCHANGED <<t, w, tmp, last, canon, aw>>

\* the caller drops the stream and the package read from it
Discard ==
  /\ ~Idle
  /\ w' = NoStream
  /\ rd' = NoRead
  /\ tmp' = <<>>
  /\ last' = Op("Discard", "ok")
  /\ UNCHANGED <<t, canon, aw>>

\* the caller goes on with the package it read (pkg, err = Read(...))
Continue ==
  /\ rd.err = "ok"
  /\ t' = rd.pkg
  /\ w' = NoStream
  /\ rd' = NoRead
  /\ tmp' = <<>>
  /\ last' = Op("Continue", "ok")
  /\ UNCHANGED <<canon, aw>>

(***************************************************************************)
(* Archives that come from elsewhere: the caller receives a stream made by *)
(* another tool and reads it.                                              *)
(***************************************************************************)

MaxEntries == 3

\* the sequences of at most n elements of S
SeqsUpTo(S, n) == UNION {[1..k -> S] : k \in 0..n}

RegularEntry(name, chars) == Entry(fileHeader(name, ByteLen(chars)), Text(chars))

\* the marker entry
MarkerEntry == RegularEntry(debianBinaryName, debianBinaryContent)

\* a control file with the mandatory fields
GoodControl ==
  FieldLines([f \in Range(mandatoryFields) |-> <<"1">>], mandatoryFields)

\* a sub-archive as an entry of the outer tar
SubArchiveEntry(name, entries) ==
  Entry(fileHeader(name, EntriesSize(entries)), Gzip(Tar(entries)))

GoodControlArchive ==
  <<Entry(directoryHeader(<<".", "/">>), Text(<<>>)),
    RegularEntry(slash(controlName), GoodControl)>>

OuterEntryPool ==
  {MarkerEntry,
   SubArchiveEntry(slash(controlArchiveName), GoodControlArchive),
   SubArchiveEntry(<<"/">> \o controlArchiveName, GoodControlArchive),
   SubArchiveEntry(slash(dataArchiveName),
                   <<RegularEntry(<<".", "/", "x">>, <<"c">>)>>),
   Entry(directoryHeader(controlArchiveName), Text(<<>>)),
   Entry([fileHeader(dataArchiveName, 0) EXCEPT !.Typeflag = "regA"],
         Gzip(Tar(<<>>))),
   RegularEntry(<<".", "/", "x">>, <<"c">>)}

ControlEntryPool ==
  {RegularEntry(slash(controlName), GoodControl),
   RegularEntry(confName, <<"/", "e", "/", "x", "\n">>),
   RegularEntry(<<".", "/", "s">>, <<"c">>),
   RegularEntry(<<"s">>, <<"d">>),
   RegularEntry(<<"S", "1">>, <<"c">>),
   Entry(directoryHeader(controlName), Text(<<>>))}

DataEntryPool ==
  {RegularEntry(<<".", "/", "e", "/", "x">>, <<"c">>),
   RegularEntry(<<"/", "e", "/", "x">>, <<"d">>),
   Entry(directoryHeader(<<".", "/", "e", "/">>), Text(<<>>)),
   RegularEntry(<<"e">>, <<"c">>),
   Entry(directoryHeader(<<".", "/">>), Text(<<>>)),
   RegularEntry(<<".", ".">>, <<"c">>),
   RegularEntry(<<".", "/", "e", "/", ".", ".", "/", ".", ".", "/", "x">>,
                <<"c">>)}

\* the caller receives the stream
Receive(stream) ==
  /\ Idle
  /\ t = New
  /\ w' = stream
  /\ last' = Op("Receive", "ok")
  /\ UNCHANGED <<t, tmp, rd, canon, aw>>

\* an archive with any outer entries
ReceiveTar ==
  \E entries \in SeqsUpTo(OuterEntryPool, MaxEntries) : Receive(Tar(entries))

\* an archive whose control sub-archive has any entries
ReceiveControl ==
  \E entries \in SeqsUpTo(ControlEntryPool, MaxEntries) :
    Receive(Tar(<<MarkerEntry,
                  SubArchiveEntry(slash(controlArchiveName), entries)>>))

\* an archive whose data sub-archive has any entries
ReceiveData ==
  \E entries \in SeqsUpTo(DataEntryPool, MaxEntries) :
    Receive(Tar(<<MarkerEntry,
                  SubArchiveEntry(slash(controlArchiveName),
                                  GoodControlArchive),
                  SubArchiveEntry(slash(dataArchiveName), entries)>>))

\* the whole interface, on small packages
Next ==
  \/ AddField
  \/ AddConffile
  \/ AddScript
  \/ AddRootFile
  \/ WriteSound
  \/ Read
  \/ Discard
  \/ Continue

Spec == Init /\ [][Next]_vars

\* building, writing and reading file trees
NextFiles ==
  \/ AddMandatoryField
  \/ AddFile
  \/ WriteSound
  \/ Read
  \/ Discard
  \/ Continue

SpecFiles == Init /\ [][NextFiles]_vars

\* writing while I/O calls fail
NextFaults ==
  \/ AddMandatoryField
  \/ AddRootFile
  \/ WriteFaulty
  \/ Read
  \/ Discard

SpecFaults == Init /\ [][NextFaults]_vars

\* reading archives with any outer entries
NextTar ==
  \/ ReceiveTar
  \/ Read
  \/ Discard

SpecTar == Init /\ [][NextTar]_vars

\* reading archives with any control sub-archive
NextControl ==
  \/ ReceiveControl
  \/ Read
  \/ Discard

SpecControl == Init /\ [][NextControl]_vars

\* reading archives with any data sub-archive
NextData ==
  \/ ReceiveData
  \/ Read
  \/ Discard

SpecData == Init /\ [][NextData]_vars

\* the archives Finish is called on
FinishEntries == {<<>>, <<Entry(fileHeader(<<"x">>, 1), Gzip(Text(<<"c">>)))>>}

InitFinish ==
  /\ t = New
  /\ w = NoStream
  /\ tmp = <<>>
  /\ rd = NoRead
  /\ last = Op("New", "ok")
  /\ canon = Given(<<>>)
  /\ aw \in {Filled(entries, compress, failed, faults) :
               entries \in FinishEntries, compress \in BOOLEAN,
               failed \in BOOLEAN, faults \in SUBSET FinishSteps}

\* what is in the backing file
Written(a) ==
  GzipStream(TarStream(a.entries, a.footer), compressionLevel(a.compress),
             a.trailer)

\* one step of Finish was taken; its error is kept if it is the first
Stepped(a, step, failed, error) ==
  [a EXCEPT !.done = Append(@, step),
            !.err = IF failed /\ @ = "ok" THEN error ELSE @]

\* aw.Writer.Close()
FinishTarClose ==
  /\ aw.done = <<>>
  /\ \E failed \in {aw.failed \/ "TarClose" \in aw.faults} :
       aw' = [Stepped(aw, "TarClose", failed, "TarCloseFailed")
                EXCEPT !.footer = ~failed]
  /\ UNCHANGED <<t, w, tmp, rd, last, canon>>

\* aw.gzipWriter.Close()
FinishGzipClose ==
  /\ aw.done = <<"TarClose">>
  /\ \E failed \in {aw.failed \/ "GzipClose" \in aw.faults} :
       aw' = [Stepped(aw, "GzipClose", failed, "GzipCloseFailed")
                EXCEPT !.trailer = ~failed]
  /\ UNCHANGED <<t, w, tmp, rd, last, canon>>

\* aw.file.Seek(0, io.SeekCurrent)
FinishSeek ==
  /\ aw.done = <<"TarClose", "GzipClose">>
  /\ \E failed \in {"Seek" \in aw.faults} :
       aw' = [Stepped(aw, "Seek", failed, "SeekFailed")
                EXCEPT !.size = IF failed THEN -1 ELSE StreamSize(Written(aw))]
  /\ UNCHANGED <<t, w, tmp, rd, last, canon>>

\* aw.file.Seek(0, io.SeekStart)
FinishRewind ==
  /\ aw.done = <<"TarClose", "GzipClose", "Seek">>
  /\ \E failed \in {"Rewind" \in aw.faults} :
       aw' = [Stepped(aw, "Rewind", failed, "RewindFailed")
                EXCEPT !.rewound = ~failed]
  /\ UNCHANGED <<t, w, tmp, rd, last, canon>>

\* os.Remove(aw.file.Name())
FinishRemove ==
  /\ aw.done = <<"TarClose", "GzipClose", "Seek", "Rewind">>
  /\ \E failed \in {"Remove" \in aw.faults} :
       aw' = [Stepped(aw, "Remove", failed, "RemoveFailed")
                EXCEPT !.file.linked = failed]
  /\ UNCHANGED <<t, w, tmp, rd, last, canon>>

\* Finish returns and leaves the file open
FinishReturnOpen ==
  /\ Len(aw.done) = Cardinality(FinishSteps)
  /\ ~aw.returned
  /\ aw' = [aw EXCEPT !.returned = TRUE]
  /\ UNCHANGED <<t, w, tmp, rd, last, canon>>

\* if err != nil { aw.file.Close() }; return aw.file, size, err
FinishReturn ==
  /\ Len(aw.done) = Cardinality(FinishSteps)
  /\ ~aw.returned
  /\ aw' = [aw EXCEPT !.returned = TRUE,
                      !.file.open = (aw.err = "ok")]
  /\ UNCHANGED <<t, w, tmp, rd, last, canon>>

\* finishing temporary archives
NextFinish ==
  \/ FinishTarClose
  \/ FinishGzipClose
  \/ FinishSeek
  \/ FinishRewind
  \/ FinishRemove
  \/ FinishReturn

SpecFinish == InitFinish /\ [][NextFinish]_vars

\* the Format values a caller passes: the named ones, and values with other
\* bits set
MaxFormat == 7

AnyFormats == 0..MaxFormat

\* Write with any Format value, where no I/O call fails
WriteAnyFormat ==
  /\ Idle
  /\ \E format \in AnyFormats :
     \E fieldOrder \in Orders(DOMAIN t.fields \ Range(mandatoryFields)) :
     \E scriptOrder \in Orders(DOMAIN t.scripts) :
     \E res \in {WriteOp(t, format, {}, fieldOrder, scriptOrder)} :
           /\ t' = res.pkg
           /\ w' = res.stream
           /\ tmp' = res.tmp
           /\ last' = [op |-> "Write", err |-> res.err, format |-> format,
                       before |-> t]
  /\ UNCHANGED <<rd, canon, aw>>

\* Read with any Format value
ReadAnyFormat ==
  /\ w # NoStream
  /\ rd = NoRead
  /\ \E format \in AnyFormats :
       rd' = ReadResult(ReadOp(w, format), format)
  /\ UNCHANGED <<t, w, tmp, last, canon, aw>>

\* writing and reading with every Format value
NextFormats ==
  \/ AddMandatoryField
  \/ AddConffile
  \/ WriteAnyFormat
  \/ ReadAnyFormat
  \/ Discard

SpecFormats == Init /\ [][NextFormats]_vars

\* writing control files of packages with several fields
NextFields ==
  \/ AddMandatoryField
  \/ AddOptionalField
  \/ WriteSound
  \/ Discard

SpecFields == Init /\ [][NextFields]_vars

\* writing and reading lists of configuration files
NextConffiles ==
  \/ AddMandatoryField
  \/ AddRawConffile
  \/ WriteSound
  \/ Read
  \/ Discard

SpecConffiles == Init /\ [][NextConffiles]_vars

\* the path names handed to slash and unslash: the strings of at most
\* MaxPathLen characters out of ., / and a letter
MaxPathLen == 5

PathNames == SeqsUpTo({".", "/", "x"}, MaxPathLen)

InitPaths ==
  /\ t = New
  /\ w = NoStream
  /\ tmp = <<>>
  /\ rd = NoRead
  /\ last = Op("New", "ok")
  /\ canon \in {Given(name) : name \in PathNames}
  /\ aw = Filled(<<>>, FALSE, FALSE, {})

MaxCalls == 2

\* slash is applied to the path name
Slash ==
  /\ Len(canon.calls) < MaxCalls
  /\ canon' = [canon EXCEPT !.now = slash(@), !.calls = Append(@, "slash")]
  /\ UNCHANGED <<t, w, tmp, rd, last, aw>>

\* unslash is applied to the path name
Unslash ==
  /\ Len(canon.calls) < MaxCalls
  /\ canon' = [canon EXCEPT !.now = unslash(@),
                            !.calls = Append(@, "unslash")]
  /\ UNCHANGED <<t, w, tmp, rd, last, aw>>

NextPaths ==
  \/ Slash
  \/ Unslash

SpecPaths == InitPaths /\ [][NextPaths]_vars

\* building file trees
NextTree == AddTreeFile

SpecTree == Init /\ [][NextTree]_vars

\* writing, then reading with format detection
NextDetect ==
  \/ AddField
  \/ AddConffile
  \/ AddScript
  \/ AddRootFile
  \/ WriteSound
  \/ ReadDetect
  \/ Discard

SpecDetect == Init /\ [][NextDetect]_vars

(***************************************************************************)
(* Properties                                                              *)
(***************************************************************************)

\* a stream was written without error and read back in the format it was
\* written in
ReadBack ==
  /\ last.op = "Write"
  /\ last.err = "ok"
  /\ rd.err # "none"
  /\ rd.format = last.format

\* C1: when a package holding the five mandatory fields was written as
\* FormatTar or FormatTarGZip and the result is read back, the read returns a
\* package whose field map is the written package's field map: the same
\* names, each with the same content.
C1_FieldsRoundTrip ==
  ReadBack => rd.err = "ok" /\ rd.pkg.fields = last.before.fields

C3_Mandatory ==
  {ControlPackage, ControlVersion, ControlArch, ControlMaintainer, ControlDesc}

\* C3: a Write in a supported format to a writer that takes every byte fails
\* with the error that names a missing field whenever one of the five
\* mandatory fields is absent, whatever else the package holds, and succeeds
\* for a package that holds exactly the five fields and nothing else.
C3_MandatoryFields ==
  (last.op = "Write" /\ ~Unsupported(last.format)) =>
    /\ ~(C3_Mandatory \subseteq DOMAIN last.before.fields) =>
         \E i \in 1..Len(mandatoryFields) :
           /\ mandatoryFields[i] \in C3_Mandatory
           /\ mandatoryFields[i] \notin DOMAIN last.before.fields
           /\ last.err = MandatoryFieldMissing[i]
    /\ ( /\ DOMAIN last.before.fields = C3_Mandatory
         /\ last.before.conffiles = <<>>
         /\ DOMAIN last.before.scripts = {}
         /\ DOMAIN last.before.files = {} ) => last.err = "ok"

\* a Write failed on a missing Description although the package holds other
\* control data
C3_Witness ==
  /\ last.op = "Write"
  /\ last.format = FormatTarGZip
  /\ last.err = MandatoryFieldMissing[5]
  /\ last.before.conffiles # <<>>
  /\ ControlHomepage \in DOMAIN last.before.fields

C8_Letters == Lower \cup Upper

\* a name that is not empty and made of letters and hyphens
C8_ValidName(name) ==
  Len(name) > 0 /\ \A i \in 1..Len(name) : name[i] \in C8_Letters \/ name[i] = "-"

C8_Contents == PlainContents \cup RichContents \cup {<<>>}

\* C8: in every package state, AddField with a name that is present, with an
\* invalid name, or with content that holds a newline after trimming returns
\* an error and leaves fields, conffiles, scripts and files as they were; any
\* other call succeeds and adds exactly that name, keeping every other field.
C8_AddFieldRejects ==
  \A name \in FieldNames : \A content \in C8_Contents :
    \E r \in {AddFieldOp(t, name, content)} :
      IF \/ name \in DOMAIN t.fields
         \/ ~C8_ValidName(name)
         \/ ContainsRune(TrimSpace(content), "\n")
      THEN r.err # "ok" /\ r.pkg = t
      ELSE /\ r.err = "ok"
           /\ DOMAIN r.pkg.fields = DOMAIN t.fields \cup {name}
           /\ \A n \in DOMAIN t.fields : r.pkg.fields[n] = t.fields[n]
           /\ r.pkg.conffiles = t.conffiles
           /\ r.pkg.scripts = t.scripts
           /\ r.pkg.files = t.files

\* an AddField for a name that is present was refused
C8_Witness ==
  /\ last.op = "AddField"
  /\ last.err = "FieldExists"
  /\ ControlHomepage \in DOMAIN t.fields
  /\ t.conffiles # <<>>

\* what a caller can see of a file: its type, mode, symlink target and
\* content
FileView(f) ==
  [type |-> f.header.Typeflag,
   mode |-> f.header.Mode,
   target |-> f.header.Linkname,
   content |-> IF f.data.fmt = "nil" THEN <<>> ELSE Gunzip(f.data).body]

\* C2: when a package with the five mandatory fields and a file tree built
\* with AddFile was written and the result is read back, the read returns the
\* same file tree: FileNames gives the same set of paths (directories under
\* the keys they had, such as /e/), and each path has the same type, mode,
\* symlink target and content.
C2_FileTreeRoundTrip ==
  ReadBack =>
    /\ rd.err = "ok"
    /\ DOMAIN rd.pkg.files = DOMAIN last.before.files
    /\ \A path \in DOMAIN last.before.files :
         FileView(rd.pkg.files[path]) = FileView(last.before.files[path])

\* the path AddFile stores the file under
C7_Path(dir, info) ==
  IF info.kind = "dir" THEN Join(dir, info.name) \o <<"/">>
  ELSE Join(dir, info.name)

\* the file infos AddFile takes, and a reader that yields data
C7_Infos == {info \in FileInfos : info.kind \in {"reg", "dir", "sym"}}

\* C7: in every package state, built by AddFile, populated by Read, or both,
\* AddFile for a directory and a file name whose path is in the file tree
\* returns os.ErrExist and leaves the package as it was.
C7_ExistingPathRejected ==
  \A dir \in FileDirs : \A info \in C7_Infos :
    C7_Path(dir, info) \in DOMAIN t.files =>
      \E res \in {AddFileOp(t, dir, info, Reader(<<"c">>))} :
        res.err = "ErrExist" /\ res.pkg = t

\* C5: when Write has returned, every temporary file it made is unlinked and
\* its handle is closed.
C5_TempFilesReleased ==
  last.op = "Write" =>
    \A i \in 1..Len(tmp) : ~tmp[i].linked /\ ~tmp[i].open

\* C6: when Write has returned an error, reading what it wrote in the same
\* format does not return a package.
C6_FailedWriteUnreadable ==
  (last.op = "Write" /\ last.err # "ok" /\ rd.err # "none"
     /\ rd.format = last.format) => rd.err # "ok"

\* a received archive was read as a tar stream
ReadReceived ==
  /\ last.op = "Receive"
  /\ rd.err # "none"
  /\ rd.format = FormatTar

\* the path an entry name stands for
C4_Canonical(e) == Clean(unslash(e.header.Name))

\* C4: when the data sub-archive of an archive holds two entries whose names
\* stand for the same path, reading the archive fails and returns no package.
C4_DuplicatePathsRejected ==
  ReadReceived =>
    \E es \in {Gunzip(w.body[3].content).body} :
      (\E i, j \in 1..Len(es) :
         /\ i < j
         /\ C4_Canonical(es[i]) = C4_Canonical(es[j])
         /\ ~Skipped(C4_Canonical(es[i])))
        => rd.err # "ok" /\ rd.pkg = New

C9_Regular(e) == e.header.Typeflag \in {"reg", "regA"}

C9_IsControl(e) ==
  C9_Regular(e) /\ unslash(e.header.Name) = controlArchiveName

C9_IsData(e) == C9_Regular(e) /\ unslash(e.header.Name) = dataArchiveName

C9_Dispatched(e) == C9_IsControl(e) \/ C9_IsData(e)

\* the package the sub-archives give, the control archive read first
C9_Expected(ctl, dat) ==
  LET c == readControlArchive(New, ctl[1].content)
  IN  IF c.err # "ok" \/ dat = <<>> THEN c
      ELSE readDataArchive(c.pkg, dat[1].content)

\* C9: for every sequence of outer entries, a second regular entry named
\* control.tar.gz or data.tar.gz makes Read fail; Read fails without a
\* control.tar.gz; entries of another type or name, the marker among them,
\* do not change the result; with one control.tar.gz and at most one
\* data.tar.gz the result is what the two subsystems give; and without a
\* data.tar.gz the file tree is empty.
C9_OuterDispatch ==
  ReadReceived =>
    \E ctl \in {SelectSeq(w.body, C9_IsControl)} :
    \E dat \in {SelectSeq(w.body, C9_IsData)} :
      /\ (Len(ctl) > 1 \/ Len(dat) > 1) => rd.err # "ok"
      /\ Len(ctl) = 0 => rd.err # "ok"
      /\ ReadOp(Tar(SelectSeq(w.body, C9_Dispatched)), FormatTar)
           = Result(rd.pkg, rd.err)
      /\ (Len(ctl) = 1 /\ Len(dat) <= 1) =>
           \E want \in {C9_Expected(ctl, dat)} :
             /\ (rd.err = "ok") <=> (want.err = "ok")
             /\ rd.err = "ok" => rd.pkg = want.pkg
      /\ (rd.err = "ok" /\ Len(dat) = 0) => DOMAIN rd.pkg.files = {}

\* an archive with a data.tar.gz, a directory named control.tar.gz and then
\* a control.tar.gz was read
C9_Witness ==
  /\ ReadReceived
  /\ Len(w.body) = 3
  /\ C9_IsData(w.body[1])
  /\ ~C9_Regular(w.body[2])
  /\ unslash(w.body[2].header.Name) = controlArchiveName
  /\ C9_IsControl(w.body[3])
  /\ rd.err = "ok"
  /\ DOMAIN rd.pkg.files # {}

C10_Regular(e) == e.header.Typeflag \in {"reg", "regA"}

C10_Name(e) == Clean(unslash(e.header.Name))

C10_IsControl(e) == C10_Regular(e) /\ C10_Name(e) = controlName

C10_IsConffiles(e) == C10_Regular(e) /\ C10_Name(e) = confName

\* a name of lower-case letters, at least one
C10_ValidScriptName(name) ==
  Len(name) > 0 /\ \A i \in 1..Len(name) : name[i] \in Lower

C10_IsScript(e) ==
  /\ C10_Regular(e)
  /\ C10_Name(e) \notin {controlName, confName}
  /\ C10_ValidScriptName(C10_Name(e))

\* a regular entry that is no control file, no conffiles file and has no
\* valid script name
C10_IsSkipped(e) ==
  /\ C10_Regular(e)
  /\ C10_Name(e) \notin {controlName, confName}
  /\ ~C10_ValidScriptName(C10_Name(e))

C10_NotSkipped(e) == ~C10_IsSkipped(e)

\* the received archive with other entries in its control sub-archive
C10_Archive(entries) ==
  Tar(<<MarkerEntry, SubArchiveEntry(slash(controlArchiveName), entries)>>)

\* C10: for every sequence of entries of a control sub-archive, the parse
\* fails at a second control file, at a second conffiles file, without a
\* control file, and at a second script of a name; a regular entry of another
\* name is a script of the package when its name is valid, and does not
\* change the result when its name is not; the parse succeeds otherwise.
C10_ControlEntries ==
  ReadReceived =>
    \E es \in {Gunzip(w.body[2].content).body} :
    \E scripts \in {SelectSeq(es, C10_IsScript)} :
      /\ Len(SelectSeq(es, C10_IsControl)) > 1 => rd.err # "ok"
      /\ Len(SelectSeq(es, C10_IsConffiles)) > 1 => rd.err # "ok"
      /\ Len(SelectSeq(es, C10_IsControl)) = 0 => rd.err # "ok"
      /\ (\E i, j \in 1..Len(scripts) :
            i < j /\ C10_Name(scripts[i]) = C10_Name(scripts[j]))
           => rd.err # "ok"
      /\ rd.err = "ok" =>
           /\ DOMAIN rd.pkg.scripts
                = {C10_Name(scripts[i]) : i \in 1..Len(scripts)}
           /\ \A i \in 1..Len(scripts) :
                Gunzip(rd.pkg.scripts[C10_Name(scripts[i])].data)
                  = scripts[i].content
      /\ ReadOp(C10_Archive(SelectSeq(es, C10_NotSkipped)), FormatTar)
           = Result(rd.pkg, rd.err)
      /\ ( /\ Len(SelectSeq(es, C10_IsControl)) = 1
           /\ Len(SelectSeq(es, C10_IsConffiles)) <= 1
           /\ \A i, j \in 1..Len(scripts) :
                C10_Name(scripts[i]) = C10_Name(scripts[j]) => i = j )
           => rd.err = "ok"

\* a control sub-archive with a control file, a script and an entry whose
\* name is no script name was read
C10_Witness ==
  /\ ReadReceived
  /\ rd.err = "ok"
  /\ DOMAIN rd.pkg.scripts = {<<"s">>}
  /\ \E es \in {Gunzip(w.body[2].content).body} :
       \E i \in 1..Len(es) : C10_IsSkipped(es[i])


\* a written stream went through ReadDetectFormat and every Seek worked
C11_Detected ==
  /\ last.op = "Write"
  /\ last.err = "ok"
  /\ rd.via = "ReadDetectFormat"
  /\ rd.err \notin {"SeekFailed", "RewindFailed"}

C11_OtherFormat(format) ==
  IF format = FormatTar THEN FormatTarGZip ELSE FormatTar

\* C11: when a package was written without error, ReadDetectFormat of the
\* stream succeeds, and so does ReadDetectFormat of the same package written
\* in the other of the two formats FormatTar and FormatTarGZip, and the two
\* return equal packages.
C11_DetectFormatsAgree ==
  C11_Detected =>
    /\ rd.err = "ok"
    /\ \A fieldOrder \in Orders(DOMAIN last.before.fields
                                   \ Range(mandatoryFields)) :
       \A scriptOrder \in Orders(DOMAIN last.before.scripts) :
         \E other \in {WriteOp(last.before, C11_OtherFormat(last.format), {},
                               fieldOrder, scriptOrder)} :
           /\ other.err = "ok"
           /\ \E res \in {ReadDetectFormat(ReadSeeker(other.stream, 0), {})} :
                /\ res.err = "ok"
                /\ res.pkg = rd.pkg

\* the entries of a sequence whose name, without leading ./ and /, is name
EntriesNamed(entries, name) ==
  SelectSeq(entries, LAMBDA e : unslash(e.header.Name) = name)

\* the tar stream of a written package, below the gzip layer if it has one
OuterTar(stream) == IF IsGzip(stream) THEN Gunzip(stream) ELSE stream

\* the entries of the named sub-archive of a written package
SubArchive(stream, name) ==
  Gunzip(EntriesNamed(OuterTar(stream).body, name)[1].content).body

\* the text of the control file of a written package
C12_ControlFile(stream) ==
  EntriesNamed(SubArchive(stream, controlArchiveName), controlName)[1]
    .content.body

\* C12: the control file a write produces lists the five mandatory fields
\* first in their fixed order, then each remaining field once, one
\* "Name: value" line each; and every write of a package with the same field
\* map produces the same control file.
C12_ControlFileStable ==
  (last.op = "Write" /\ last.err = "ok") =>
    LET fields == last.before.fields
        rest == DOMAIN fields \ Range(mandatoryFields)
    IN  /\ \E order \in Orders(rest) :
             C12_ControlFile(w) = FieldLines(fields, mandatoryFields \o order)
        /\ \A order \in Orders(rest) :
           \A scriptOrder \in Orders(DOMAIN last.before.scripts) :
             \E again \in {WriteOp(last.before, last.format, {}, order,
                                   scriptOrder)} :
               C12_ControlFile(again.stream) = C12_ControlFile(w)

\* path lies below the directory stored under the key dir
C13_Below(dir, path) ==
  LET d == IF dir[Len(dir)] = "/" THEN dir ELSE dir \o <<"/">>
  IN  path # d /\ HasPrefix(path, d)

\* C13: the data sub-archive a write produces starts with the root directory
\* entry ./, followed by exactly one entry per key of the file tree in
\* ascending order of the keys, whatever the order the files were added in;
\* so every directory entry comes before every entry below it.
C13_DataArchiveSorted ==
  (last.op = "Write" /\ last.err = "ok") =>
    LET files == last.before.files
        data == SubArchive(w, dataArchiveName)
        n == Cardinality(DOMAIN files)
    IN  /\ Len(data) = n + 1
        /\ data[1].header.Name = <<".", "/">>
        /\ data[1].header.Typeflag = "dir"
        /\ \E keys \in Orders(DOMAIN files) :
             /\ \A i, j \in 1..n : i < j => StrLess(keys[i], keys[j])
             /\ \A i \in 1..n :
                  /\ data[i + 1].header.Name
                       = slash(files[keys[i]].header.Name)
                  /\ data[i + 1].header.Typeflag
                       = files[keys[i]].header.Typeflag
                  /\ data[i + 1].content.body = FileView(files[keys[i]]).content
             /\ \A i, j \in 1..n :
                  (files[keys[i]].header.Typeflag = "dir"
                     /\ C13_Below(keys[i], keys[j])) => i < j

\* a package was written whose tree holds a directory, a file below it and a
\* file beside it
C13_Witness ==
  /\ last.op = "Write"
  /\ last.err = "ok"
  /\ Cardinality(DOMAIN last.before.files) >= 3
  /\ \E dir, path \in DOMAIN last.before.files :
       /\ last.before.files[dir].header.Typeflag = "dir"
       /\ C13_Below(dir, path)
  /\ \E path \in DOMAIN last.before.files :
       /\ last.before.files[path].header.Typeflag = "reg"
       /\ \A dir \in DOMAIN last.before.files : ~C13_Below(dir, path)

\* C14: when a package was written without error and the result is read
\* back, Conffiles of the package read is the sorted sequence of the written
\* package's conffile paths, duplicates kept: one element per successful
\* AddConffile, none dropped, split or altered.
C14_ConffilesRoundTrip ==
  ReadBack =>
    /\ rd.err = "ok"
    /\ rd.pkg.conffiles = SortStrings(last.before.conffiles)

\* the entries of the data sub-archive of a received archive
C15_Entries == Gunzip(w.body[3].content).body

\* the entry's name, stripped of leading ./ and / and cleaned, is ., .. or
\* begins with ../
C15_Escapes(e) ==
  LET name == Clean(unslash(e.header.Name))
  IN  \/ name = <<".">>
      \/ name = <<".", ".">>
      \/ (Len(name) >= 3 /\ SubSeq(name, 1, 3) = <<".", ".", "/">>)

C15_Stays(e) == ~C15_Escapes(e)

\* the received archive with the given entries in its data sub-archive
C15_Archive(entries) ==
  Tar(<<w.body[1], w.body[2],
        SubArchiveEntry(slash(dataArchiveName), entries)>>)

\* C15: after a data sub-archive is read, every key of the file tree is an
\* absolute, cleaned path other than / without a .. segment; and an entry
\* whose cleaned name is ., .. or begins with ../ is skipped: the read goes
\* as it does on the archive without these entries.
C15_NoEscape ==
  ReadReceived =>
    /\ \A key \in DOMAIN rd.pkg.files :
         /\ IsAbs(key)
         /\ Clean(key) = key
         /\ key # <<"/">>
         /\ <<".", ".">> \notin Range(Elements(key))
    /\ \E res \in {ReadOp(C15_Archive(SelectSeq(C15_Entries, C15_Stays)),
                           FormatTar)} :
         /\ res.err = rd.err
         /\ res.pkg = rd.pkg

\* an archive was read whose data sub-archive holds an entry that leads out
\* of the tree, followed by an entry that was stored
C15_Witness ==
  /\ ReadReceived
  /\ rd.err = "ok"
  /\ \E i, j \in 1..Len(C15_Entries) :
       /\ i < j
       /\ C15_Escapes(C15_Entries[i])
       /\ Clean(unslash(C15_Entries[i].header.Name)) # <<".">>
       /\ C15_Stays(C15_Entries[j])
       /\ (<<"/">> \o Clean(unslash(C15_Entries[j].header.Name)))
            \in DOMAIN rd.pkg.files

\* the keys of the directories from the first element of dir down to dir
C16_Ancestors(dir) ==
  LET es == Elements(Clean(dir))
  IN  IF Clean(dir) = <<"/">> THEN {}
      ELSE {JoinSlash(SubSeq(es, 1, i)) \o <<"/">> : i \in 2..Len(es)}

\* C16: after a successful AddFile(dir, info, r) with an absolute dir the file
\* tree holds a directory entry, mode 0755 and key ending in /, for every
\* ancestor of the new path down to dir, and the new entry; the entries it
\* held before are untouched and nothing else is added; the root directory
\* is never a key of the file tree.
C16_AncestorsMaterialized ==
  /\ \A key \in DOMAIN t.files : Clean(key) # <<"/">>
  /\ \A dir \in TreeDirs : \A info \in TreeInfos :
       \E res \in {AddFileOp(t, dir, info, Reader(<<"c">>))} :
         res.err = "ok" =>
           /\ DOMAIN res.pkg.files
                = DOMAIN t.files \cup C16_Ancestors(dir)
                    \cup {C7_Path(dir, info)}
           /\ \A key \in DOMAIN t.files : res.pkg.files[key] = t.files[key]
           /\ \A key \in C16_Ancestors(dir) :
                /\ res.pkg.files[key].header.Typeflag = "dir"
                /\ key \in DOMAIN t.files
                     \/ res.pkg.files[key].header.Mode = ModeDir
           /\ \A key \in DOMAIN res.pkg.files : Clean(key) # <<"/">>

C17_White == {" ", "\t", "\n", "\r", "\f"}

\* content without a newline and without white space at either end
C17_Clean(content) ==
  /\ \A i \in 1..Len(content) : content[i] # "\n"
  /\ content # <<>> => /\ content[1] \notin C17_White
                       /\ content[Len(content)] \notin C17_White

\* core is content without the white space at its ends
C17_CoreOf(content, core) ==
  \E i \in 1..(Len(content) + 1) : \E j \in 0..Len(content) :
    /\ core = SubSeq(content, i, j)
    /\ \A k \in 1..(i - 1) : content[k] \in C17_White
    /\ \A k \in (j + 1)..Len(content) : content[k] \in C17_White
    /\ core # <<>> => /\ core[1] \notin C17_White
                    /\ core[Len(core)] \notin C17_White

C17_Contents ==
  PlainContents \cup RichContents
    \cup {<<>>, <<" ">>, <<"\n", " ", "1", "\t", "\n">>,
          <<"1", " ", "\n">>, <<"\n", "a", "\r", "b">>}

\* C17: in every package state, built by AddField or by parsing a control
\* file, every field content is free of newlines and of white space at its
\* ends; AddField of a new valid name stores the content without the white
\* space at its ends when that holds no newline, and rejects it otherwise.
C17_ContentsTrimmed ==
  /\ \A pkg \in {t, rd.pkg} : \A name \in DOMAIN pkg.fields :
       C17_Clean(pkg.fields[name])
  /\ \A name \in FieldNames : \A content \in C17_Contents :
       (C8_ValidName(name) /\ name \notin DOMAIN t.fields) =>
         \E r \in {AddFieldOp(t, name, content)} :
           IF \E core \in {SubSeq(content, i, j) :
                              i \in 1..(Len(content) + 1),
                              j \in 0..Len(content)} :
                C17_CoreOf(content, core) /\ C17_Clean(core)
           THEN /\ r.err = "ok"
                /\ C17_CoreOf(content, r.pkg.fields[name])
                /\ C17_Clean(r.pkg.fields[name])
           ELSE /\ r.err # "ok"
                /\ r.pkg = t

\* a field given with white space at its ends is stored without it, in a
\* package built with AddField and in one that came from a control file
C17_Witness ==
  /\ ControlHomepage \in DOMAIN rd.pkg.fields
  /\ rd.pkg.fields[ControlHomepage] = <<"a", ":", "b">>
  /\ last.op = "Write"
  /\ last.before.fields[ControlHomepage] = <<"a", ":", "b">>

\* an absolute path other than / whose elements are names: none is empty, .
\* or ..
C18_CleanAbsolute(p) ==
  /\ Len(p) > 1
  /\ p[1] = "/"
  /\ \A e \in Range(Elements(Tail(p))) :
       e \notin {<<>>, <<".">>, <<".", ".">>}

\* paths AddConffile must reject: empty, relative, and forms of the root
C18_Rejected ==
  {<<>>, <<"e">>, <<".", "/", "e">>, <<".", ".", "/", "e">>, <<"/">>,
   <<"/", "/">>, <<"/", ".", ".">>, <<"/", "e", "/", ".", ".">>}

\* paths AddConffile accepts, each with its cleaned form
C18_Accepted ==
  {<<<<"/", "e", "/", "x">>, <<"/", "e", "/", "x">>>>,
   <<<<"/", "e", "/", ".", ".", "/", "b">>, <<"/", "b">>>>,
   <<<<"/", "e", "/", "/", "x", "/">>, <<"/", "e", "/", "x">>>>,
   <<<<"/", ".", "/", "e">>, <<"/", "e">>>>,
   <<<<"/", ".", ".", "/", "e">>, <<"/", "e">>>>}

\* C18: in every package state, built by AddConffile or by parsing a
\* conffiles file, every element of the conffile list is a cleaned absolute
\* path other than /; AddConffile of the empty string, of a relative path or
\* of a path that cleans to / returns an error and leaves the list as it was,
\* and a path with .. segments is stored in its cleaned form.
C18_ConffilesClean ==
  /\ \A pkg \in {t, rd.pkg} : \A i \in 1..Len(pkg.conffiles) :
       C18_CleanAbsolute(pkg.conffiles[i])
  /\ \A pathname \in C18_Rejected :
       \E r \in {AddConffileOp(t, pathname)} : r.err # "ok" /\ r.pkg = t
  /\ \A pair \in C18_Accepted :
       \E r \in {AddConffileOp(t, pair[1])} :
         /\ r.err = "ok"
         /\ r.pkg = [t EXCEPT !.conffiles = Append(@, pair[2])]

\* a path with a .. segment was added and went through a write and a read
C18_Witness ==
  /\ ReadBack
  /\ rd.err = "ok"
  /\ <<"/", "b">> \in Range(rd.pkg.conffiles)
  /\ <<"/", "b">> \in Range(last.before.conffiles)

C19_LowerCase ==
  {"a", "b", "c", "d", "e", "f", "g", "h", "i", "j", "k", "l", "m",
   "n", "o", "p", "q", "r", "s", "t", "u", "v", "w", "x", "y", "z"}

\* a non-empty string of lowercase letters other than control and conffiles
C19_ScriptName(name) ==
  /\ Len(name) > 0
  /\ \A i \in 1..Len(name) : name[i] \in C19_LowerCase
  /\ name # <<"c", "o", "n", "t", "r", "o", "l">>
  /\ name # <<"c", "o", "n", "f", "f", "i", "l", "e", "s">>

C19_Names ==
  {<<"s">>, <<"t">>, <<>>, <<"S">>, <<"s", "1">>, <<"a", "/", "b">>,
   <<"s", "\n">>, <<"c", "o", "n", "t", "r", "o", "l">>,
   <<"c", "o", "n", "f", "f", "i", "l", "e", "s">>}

C19_Readers == {NilReader, Reader(<<"c">>), Reader(<<>>), BrokenReader}

\* C19: in every package state, built by AddScript or by parsing a control
\* sub-archive, every key of the script map is a non-empty string of
\* lowercase letters other than control and conffiles; an AddScript call
\* inserts exactly one new key, or, when the name is invalid, reserved or
\* present, or the reader is nil or fails, returns an error and leaves the
\* script map as it was.
C19_ScriptNamesValid ==
  /\ \A pkg \in {t, rd.pkg} : \A name \in DOMAIN pkg.scripts :
       C19_ScriptName(name)
  /\ \A name \in C19_Names : \A r \in C19_Readers :
       \E res \in {AddScriptOp(t, name, r)} :
         IF /\ C19_ScriptName(name)
            /\ name \notin DOMAIN t.scripts
            /\ r.kind = "ok"
         THEN /\ res.err = "ok"
              /\ DOMAIN res.pkg.scripts = DOMAIN t.scripts \cup {name}
              /\ \A other \in DOMAIN t.scripts :
                   res.pkg.scripts[other] = t.scripts[other]
              /\ Gunzip(res.pkg.scripts[name].data).body = r.data
         ELSE /\ res.err # "ok"
              /\ res.pkg.scripts = t.scripts

\* AddScript was called with the name of a script the package holds
C19_Witness ==
  /\ last.op = "AddScript"
  /\ last.err = "ScriptExists"
  /\ <<"s">> \in DOMAIN t.scripts

\* the name begins with ./
C20_Dotted(name) == Len(name) >= 2 /\ name[1] = "." /\ name[2] = "/"

\* the name begins with neither ./ nor /
C20_Bare(name) == ~C20_Dotted(name) /\ (name = <<>> \/ name[1] # "/")

\* C20: for every path that carries the ./ prefix, slash(unslash(p)) = p; and
\* for every name q that begins with neither ./ nor /, unslash(slash(q)) = q.
C20_SlashUnslashInverse ==
  /\ (canon.calls = <<"unslash", "slash">> /\ C20_Dotted(canon.given))
       => canon.now = canon.given
  /\ (canon.calls = <<"slash", "unslash">> /\ C20_Bare(canon.given))
       => canon.now = canon.given

\* C20, amended: slash(unslash(p)) = p exactly for the paths p that are ./
\* followed by a name that begins with neither ./ nor /; and
\* unslash(slash(q)) = q exactly for the names q that begin with neither ./
\* nor /.
C20_InverseOnCanonical ==
  /\ canon.calls = <<"unslash", "slash">> =>
       (canon.now = canon.given
          <=> /\ C20_Dotted(canon.given)
              /\ C20_Bare(SubSeq(canon.given, 3, Len(canon.given))))
  /\ canon.calls = <<"slash", "unslash">> =>
       (canon.now = canon.given <=> C20_Bare(canon.given))

\* unslash, then slash, gave back a path that is ./ followed by a bare name
C20_Witness ==
  /\ canon.calls = <<"unslash", "slash">>
  /\ canon.given = <<".", "/", "x", "/", "x">>
  /\ canon.now = canon.given

\* a run of ./ and / tokens: dots and slashes only, every dot followed by a
\* slash
C21_Run(s) ==
  /\ \A i \in 1..Len(s) : s[i] \in {".", "/"}
  /\ \A i \in 1..Len(s) : s[i] = "." => (i < Len(s) /\ s[i + 1] = "/")

\* rest is what is left of name after its longest leading run of ./ and /
C21_Rest(name, rest) ==
  /\ Len(rest) <= Len(name)
  /\ rest = SubSeq(name, Len(name) - Len(rest) + 1, Len(name))
  /\ C21_Run(SubSeq(name, 1, Len(name) - Len(rest)))
  /\ C20_Bare(rest)

\* C21: unslash(p) is the suffix of p left after removing the longest
\* leading run of ./ and / tokens: it begins with neither ./ nor /, what
\* follows the run is returned unaltered, . and .. are returned unchanged,
\* and unslash is idempotent.
C21_UnslashStripsLeadingRun ==
  /\ (canon.calls # <<>> /\ Range(canon.calls) = {"unslash"}) =>
       /\ C21_Rest(canon.given, canon.now)
       /\ canon.given \in {<<".">>, <<".", ".">>} => canon.now = canon.given
  /\ canon.calls = <<"unslash", "unslash">> =>
       canon.now = unslash(canon.given)

\* unslash removed a run of two tokens and kept the trailing slash
C21_Witness ==
  /\ canon.calls = <<"unslash">>
  /\ canon.given = <<"/", ".", "/", "x", "/">>
  /\ canon.now = <<"x", "/">>

\* the two Format values Write and Read accept
C22_Accepted == {FormatTar, FormatTarGZip}

\* C22: Write and Read accept exactly FormatTar and FormatTarGZip; for every
\* other Format value they return the unsupported-format error, Write with
\* nothing written to the output, no temporary file created and the package
\* as it was, and Read with no package.
C22_OnlyTarFormats ==
  /\ last.op = "Write" =>
       IF last.format \in C22_Accepted
       THEN last.err # "UnsupportedFormat"
       ELSE /\ last.err = "UnsupportedFormat"
            /\ w = NoStream
            /\ tmp = <<>>
            /\ t = last.before
  /\ rd.via = "Read" /\ rd # NoRead =>
       IF rd.format \in C22_Accepted
       THEN rd.err # "UnsupportedFormat"
       ELSE rd = ReadResult(NoPackage("UnsupportedFormat"), rd.format)

\* a package was written as FormatTar and then read with a Format value
\* that has another bit set
C22_Witness ==
  /\ last.op = "Write"
  /\ last.format = FormatTar
  /\ last.err = "ok"
  /\ rd.via = "Read"
  /\ rd.format = 6
  /\ rd.err = "UnsupportedFormat"

\* the steps of Finish in their order, and the error of each
C23_Steps ==
  << <<"TarClose", "TarCloseFailed">>, <<"GzipClose", "GzipCloseFailed">>,
     <<"Seek", "SeekFailed">>, <<"Rewind", "RewindFailed">>,
     <<"Remove", "RemoveFailed">> >>

\* the step fails in this call of Finish: it was told to, or it is a Close
\* of a writer that already holds a write error
C23_Fails(i) ==
  \/ C23_Steps[i][1] \in aw.faults
  \/ aw.failed /\ i <= 2

\* Finish took its five steps in their order, all of them, and returned the
\* error of the first that failed
C23_AllSteps ==
  /\ aw.done = [i \in 1..Len(C23_Steps) |-> C23_Steps[i][1]]
  /\ \A i \in 1..Len(C23_Steps) :
       (C23_Fails(i) /\ \A j \in 1..(i - 1) : ~C23_Fails(j))
         => aw.err = C23_Steps[i][2]
  /\ (\A i \in 1..Len(C23_Steps) : ~C23_Fails(i)) => aw.err = "ok"

\* on success the handle is open at offset 0, the directory entry is gone,
\* and the size is the number of bytes written to the file
C23_Success ==
  aw.err = "ok" =>
    /\ aw.file.open /\ aw.rewound /\ ~aw.file.linked
    /\ aw.size = StreamSize(GzipStream(Tar(aw.entries),
                                       compressionLevel(aw.compress), TRUE))

\* what the steps did is what Finish returns to createArchive
C23_FinishResult ==
  aw.returned =>
    \E fin \in {Finish("ipkcontrol", aw.entries, aw.compress, aw.failed,
                        {<<"ipkcontrol", step>> : step \in aw.faults})} :
      /\ fin.file = aw.file
      /\ fin.stream = Written(aw)
      /\ fin.size = aw.size
      /\ fin.err = aw.err
      /\ (fin.offset = 0) = aw.rewound

C24_WriteKeepsPackage ==
  last.op = "Write" =>
    /\ t.fields = last.before.fields
    /\ t.scripts = last.before.scripts
    /\ t.files = last.before.files
    /\ SortStrings(t.conffiles) = SortStrings(last.before.conffiles)

\* the arguments of the AddFile calls C25 is about
C25_Infos == FileInfos

\* C25: an AddFile call that returns an error other than os.ErrExist leaves
\* the file tree unchanged; no ancestor directory made for it remains.
C25_FailedAddFileKeepsTree ==
  \A dir \in FileDirs : \A info \in C25_Infos : \A r \in FileReaders :
    \E res \in {AddFileOp(t, dir, info, r)} :
      res.err \notin {"ok", "ErrExist"} => res.pkg.files = t.files

\* the key belongs to something below the path
C26_Under(p, key) ==
  /\ Len(key) > Len(p)
  /\ SubSeq(key, 1, Len(p) + 1) = p \o <<"/">>

\* C26: no path is both a non-directory entry and a directory: when the
\* file tree holds a regular file or a symlink under a key, it holds no
\* entry whose key is that key followed by a slash or begins with it.
C26_FilesAreLeaves ==
  \A p \in DOMAIN t.files :
    t.files[p].header.Typeflag \in {"reg", "sym"} =>
      \A key \in DOMAIN t.files : ~C26_Under(p, key)


=============================================================================
